---- MODULE Spec2Model ----
(***************************************************************************)
(* bubbleOne ML service: the persisted vector memory (RagStore) of         *)
(* services/ml/app/rag_store.py, the recommendation flow of                *)
(* langgraph_flow.py, the planner of llm_clients.py, the embedder of       *)
(* embeddings.py, the request models of models.py and the scoring of       *)
(* scoring.py behind the handlers of main.py, as a state machine.          *)
(*                                                                         *)
(* A vector of dimension d is the record [dim |-> d, xs |-> <<x1, x2>>]:   *)
(* its leading coordinates, every other coordinate being zero.  A raw      *)
(* embedding has integer coordinates; a normalised vector is held in       *)
(* fixed point, in units of 1/Scale, and a similarity score in units of    *)
(* 10^-4 (the four decimals query rounds to).  The embeddings used have    *)
(* norms 0, 5 and 10, so that normalisation is exact at this resolution.   *)
(***************************************************************************)
EXTENDS Integers, Sequences, FiniteSets, TLC

\* ------------------------------------------------------------------ bounds
\* Events in the recent_metadata of a run of the flow.
MaxEvents == 2
\* Rows the ingest requests may insert.
MaxEmbedRows == 2
\* Events in a scoring request.
MaxScoreEvents == 2
\* The latest day an event of a scoring request may carry.
MaxDay == 1
\* Rows add_record may insert before a run of the flow.
MaxFlowRows == 1
\* The largest numeral a text of the planner's reply may spell.
MaxNumeral == 20
\* Rows add_record may insert in the sequential specifications.
MaxRows == 3
\* Rows add_record may insert in the specification of the candidate window.
MaxFloodRows == 5
\* Rows add_record may insert in the crash and in the concurrent specification.
MaxCrashRows == 3
\* Rows add_record may insert in the specification that changes the backend.
MaxSwitchRows == 3
MaxConcRows == 2
\* Request threads of the synchronous ingest handler.
NThreads == 2
\* Largest k a query is given.
MaxK == 2

\* ---------------------------------------------------------------- constants
\* The store's fixed embedding dimension.
EmbeddingDim == 384
\* A provider's other dimension (text-embedding-3-small answers 1536 numbers).
OtherDim == 4 * EmbeddingDim
\* query over-fetches max(k * OverFetch, k) candidates.
OverFetch == 4
\* Fixed-point unit of a normalised coordinate.
Scale == 2 * 5

Threads == 1..NThreads
Contacts == {"A", "B"}

Vec(d, a, b) == [dim |-> d, xs |-> <<a, b>>]
E34 == Vec(EmbeddingDim, 3, 4)
E68 == Vec(EmbeddingDim, 6, 8)
E43 == Vec(EmbeddingDim, 4, 3)
EZero == Vec(EmbeddingDim, 0, 0)
EWide == Vec(OtherDim, 3, 4)
\* The embeddings each specification draws its inputs from.
EmbsAll == {E34, E68, E43, EZero, EWide}
EmbsFixed == {E34, E43}
QueryEmbs == {E34, E43, EWide}

\* ------------------------------------------------------------ pure helpers
RECURSIVE SumProd(_, _, _)
SumProd(a, b, i) ==
  IF i = 0 THEN 0 ELSE a[i] * b[i] + SumProd(a, b, i - 1)

\* np.dot of two vectors of one dimension.
Dot(u, v) == SumProd(u.xs, v.xs, Len(u.xs))

\* np.linalg.norm: the square root, exact on the embeddings used.
Norm(v) ==
  LET ss == Dot(v, v)
  IN  CHOOSE n \in 0..ss : n * n <= ss /\ ss < (n + 1) * (n + 1)

\* The mutant of _normalize: the vector is stored as it was passed.
NormalizeSkipped(v) == [v EXCEPT !.xs = [i \in DOMAIN v.xs |-> v.xs[i] * Scale]]

\* RagStore._normalize: vec / norm, and vec itself when norm <= 0.
Normalize(v) ==
  LET n == Norm(v)
  IN  IF n <= 0 THEN v
      ELSE [v EXCEPT !.xs = [i \in DOMAIN v.xs |-> (v.xs[i] * Scale) \div n]]

\* round(score, 4) of the inner product of two normalised vectors, in 10^-4.
Round4(d) == (d * 10000) \div (Scale * Scale)

Min(a, b) == IF a <= b THEN a ELSE b
Max(a, b) == IF a >= b THEN a ELSE b

\* _fallback_plan: the scores where the tiers part, and the hours of each.
CriticalBelow == 45
GoodFrom == 75
HoursHigh == 24
HoursMedium == 8
HoursLow == 72

\* scoring.py, in fixed point: rates (lambda, gamma) and decay factors in
\* 10^-4, weights, sentiments and multipliers in hundredths, a score in
\* thousandths of a point inside the fold and in hundredths once rounded.
\* models.py: the limits of MetadataEvent's fields.
SentimentMin == -100
SentimentMax == 100
SummaryMin == 8
SummaryMax == 280
MultiplierMin == 50
MultiplierMax == 200
OverrideMin == 100
OverrideMax == 4000

LambdaDefault == 800
RecencyGamma == 500
SentimentWeight == 6
MaxScore == 100
BandGood == 75
BandFading == 45
RiskHigh == 45
RiskMedium == 70
DefaultIntentWeight == 50
TrainedMin == 300
TrainedMax == 2000
GapCap == 7
AvgGapWeight == 100
VariabilityWeight == 30

\* _analyze_anomaly: the drop in points and the sentiment in hundredths
\* from which a run is an anomaly.
DropThreshold == 15
NegativeSentiment == -35
\* _query_rag: the k of its query.  _schedule_action: the default hours.
QueryK == 4
LastSummaries == 3
ScheduleDefault == 24
\* The hours from now past which no datetime exists: 8000 years.
DateRangeHours == 8000 * 366 * 24

\* ------------------------------------------------------------------- state
VARIABLES
  faiss,      \* whether `import faiss` succeeded in this process
  db,         \* the committed rows of rag_chunks; a row's id is its position
  id_map,     \* self._id_map
  index,      \* self._index: [exists, d, vecs]; exists = FALSE is None
  matrix,     \* self._matrix: the rows of the fallback matrix
  f_ids,      \* the file rag.index.ids.json: [exists, ids]
  f_index,    \* the file rag.index: [exists, d, vecs]
  f_matrix,   \* the file rag.matrix.npy: [exists, rows]
  pc,         \* per request thread: its place in add_record
  loc,        \* per request thread: the locals of its add_record call
  returned,   \* the row ids add_record calls have returned (history)
  last        \* what the last finished operation returned to its caller

VARIABLES
  provider,   \* the planner's provider as PlannerLLM.__init__ settles it
  node,       \* the node of the flow graph that runs next
  state,      \* the FlowState of the run
  analysis,   \* what _analyze_anomaly returned in this run (history)
  visited,    \* the nodes this run has entered, in order (history)
  calls,      \* the calls of planner.recommend in this run (history)
  reply       \* what the planner's provider did with the last call

storeVars == <<faiss, db, id_map, index, matrix, f_ids, f_index, f_matrix,
               pc, loc, returned, last>>
flowVars == <<provider, node, state, analysis, visited, calls, reply>>

VARIABLES
  embedder,   \* the EmbeddingClient: [openai, local_model], each a client
              \* or model the object holds (TRUE) or None (FALSE)
  embedded,   \* what the last embed_texts call did and returned (history)
  request,    \* the arguments of the scoring call under way
  scored      \* what the last scoring call returned (history)

embVars == <<embedder, embedded>>
scoreVars == <<request, scored>>
vars == <<storeVars, flowVars, embVars, scoreVars>>

NoIndex == [exists |-> FALSE, d |-> 0, vecs |-> <<>>]
NoLocals == [contact_hash |-> "", embedding |-> EZero, row_id |-> 0,
             vec |-> EZero, was_none |-> FALSE, stacked |-> <<>>]
NoLast == [op |-> "none", status |-> "ok", contact_hash |-> "",
           embedding |-> EZero, k |-> 0, row_id |-> 0, results |-> <<>>,
           after_add |-> 0]

AllIdle == \A t \in Threads : pc[t] = "idle"

\* ---------------------------------------------------------- Python values
\* A text is the sequence of its parts, " " being a run of white space.
\* A value of a JSON reply or of a plan is a record: its type t, and its
\* text s, or its number n / d.  "absent" is a key the dict does not hold.
PyVal(t, s, n, d) == [t |-> t, s |-> s, n |-> n, d |-> d]
Absent == PyVal("absent", <<>>, 0, 1)
PyNone == PyVal("None", <<>>, 0, 1)
PyStr(s) == PyVal("str", s, 0, 1)
PyInt(n) == PyVal("int", <<>>, n, 1)
PyFloat(n, d) == PyVal("float", <<>>, n, d)

\* The keys of a plan: the five keys of _fallback_plan's dict.
TextKeys == {"recommended_action", "draft_message", "action_type", "priority"}
PlanKeys == TextKeys \cup {"schedule_in_hours"}

\* The flow before a run: no key of FlowState is set.
NoPlan == [key \in PlanKeys |-> Absent]
NoContext == [kind |-> "unset", ids |-> <<>>]
NoSchedule == [set |-> FALSE, in_hours |-> 0]
NoAnalysis == [set |-> FALSE, anomaly_detected |-> FALSE, anomaly_reason |-> ""]
\* The keys of FlowState a reply of the planner holds beside the plan's: none.
NoExtra == <<>>
NoReply == [kind |-> "none", dict |-> NoPlan, extra |-> NoExtra]
NoState == [contact_hash |-> "", alias |-> "", current_score |-> 0,
            previous_score |-> 0, recent_metadata |-> <<>>,
            anomaly_detected |-> FALSE, anomaly_reason |-> "",
            rag_context |-> NoContext, plan |-> NoPlan,
            schedule_at |-> NoSchedule]

\* RelationshipFlow.__init__: the graph is built, no run has started.
FlowAtRest ==
  /\ node = "idle"
  /\ state = NoState
  /\ analysis = NoAnalysis
  /\ visited = <<>>
  /\ calls = 0
  /\ reply = NoReply

\* PlannerLLM.__init__: "openai" is a client built from a key, "local" the
\* local provider, "none" any other setting (or openai without a key).
Providers == {"openai", "local", "none"}

\* The store on a fresh data directory.
InitStore ==
  /\ faiss \in BOOLEAN
  /\ db = <<>>
  /\ id_map = <<>>
  /\ index = NoIndex
  /\ matrix = <<>>
  /\ f_ids = [exists |-> FALSE, ids |-> <<>>]
  /\ f_index = NoIndex
  /\ f_matrix = [exists |-> FALSE, rows |-> <<>>]
  /\ pc = [t \in Threads |-> "idle"]
  /\ loc = [t \in Threads |-> NoLocals]
  /\ returned = {}
  /\ last = NoLast

\* EmbeddingClient.__init__, lines 14-19: the OpenAI client is built when the
\* provider is openai and a key is set; the local model is loaded on demand.
Embedder(openai) == [openai |-> openai, local_model |-> FALSE]

\* No embed_texts call yet.
NoEmbedded == [source |-> "none", text |-> <<>>, vec |-> EZero,
               invoked |-> FALSE, failed |-> FALSE, loaded |-> FALSE,
               failures |-> 0]

\* No request received yet, and no score computed.
NoRequest ==
  [op |-> "none", status |-> "none", events |-> <<>>, previous_score |-> 0,
   as_of |-> 0, base_lambda |-> LambdaDefault, train |-> FALSE,
   interaction_multiplier |-> 100, base |-> 0]
NoScored ==
  [op |-> "none", request |-> NoRequest, lambda_used |-> 0, trained |-> 0,
   score |-> 0, steps |-> <<>>, band |-> "", risk |-> [a \in BOOLEAN |-> ""]]

ScoringAtRest == request = NoRequest /\ scored = NoScored

\* RagStore.__init__ on a fresh data directory, with the default settings of
\* config.py: no API key, so neither the planner nor the embedder has a
\* provider.
Init ==
  /\ InitStore
  /\ provider = "none"
  /\ FlowAtRest
  /\ embedder = Embedder(FALSE)
  /\ embedded = NoEmbedded
  /\ ScoringAtRest

\* The same with any setting of the planner's and the embedder's provider.
InitFlow ==
  /\ InitStore
  /\ provider \in Providers
  /\ FlowAtRest
  /\ embedder \in {Embedder(openai) : openai \in BOOLEAN}
  /\ embedded = NoEmbedded
  /\ ScoringAtRest

\* The vectors a query ranks: the index when the library holds one with
\* entries, else the fallback matrix.
UsesIndex == faiss /\ index.exists /\ Len(index.vecs) > 0
StoredVecs == IF faiss /\ index.exists THEN index.vecs ELSE matrix

\* ---------------------------------------------------------------- add_record
\* cur.lastrowid of the INSERT into an AUTOINCREMENT table nothing deletes from.
LastRowId(d) == Len(d)

\* add_record, lines 105-117: the row is inserted and committed, row_id is
\* read and the embedding is normalised.  The row keeps the embedding the
\* call was given (history: the table itself holds no vector).
InsertRecord(t, c, e, cap, metadata) ==
  /\ pc[t] = "idle"
  /\ Len(db) < cap
  /\ db' = Append(db, [contact_hash |-> c, embedding |-> e,
                       metadata |-> metadata])
  /\ loc' = [loc EXCEPT ![t] = [NoLocals EXCEPT !.contact_hash = c,
                                                !.embedding = e,
                                                !.row_id = LastRowId(db'),
                                                !.vec = Normalize(e)]]
  /\ pc' = [pc EXCEPT ![t] = IF faiss THEN "ensure" ELSE "stack"]
  /\ last' = NoLast
  /\ UNCHANGED <<flowVars, embVars, scoreVars>>
  /\ UNCHANGED <<faiss, id_map, index, matrix, f_ids, f_index, f_matrix, returned>>

\* add_record with the metadata left out of account.
InsertRow(t, c, e, cap) == InsertRecord(t, c, e, cap, {})

\* What the caller of a raising add_record sees.
AddFailed(t) ==
  [NoLast EXCEPT !.op = "add", !.status = "error",
                 !.contact_hash = loc[t].contact_hash,
                 !.embedding = loc[t].embedding, !.row_id = loc[t].row_id]

\* _ensure_index, line 86: the test `self._index is None`.
EnsureTest(t) ==
  /\ pc[t] = "ensure"
  /\ loc' = [loc EXCEPT ![t].was_none = ~index.exists]
  /\ pc' = [pc EXCEPT ![t] = "create"]
  /\ UNCHANGED <<flowVars, embVars, scoreVars>>
  /\ UNCHANGED <<faiss, db, id_map, index, matrix, f_ids, f_index, f_matrix,
                 returned, last>>

\* _ensure_index, line 87: a new empty IndexFlatIP(dim) replaces self._index
\* when the test saw None.
EnsureCreate(t) ==
  /\ pc[t] = "create"
  /\ index' = IF loc[t].was_none
              THEN [exists |-> TRUE, d |-> loc[t].vec.dim, vecs |-> <<>>]
              ELSE index
  /\ pc' = [pc EXCEPT ![t] = "add"]
  /\ UNCHANGED <<flowVars, embVars, scoreVars>>
  /\ UNCHANGED <<faiss, db, id_map, matrix, f_ids, f_index, f_matrix, loc,
                 returned, last>>

\* Line 121: self._index.add, which refuses a vector of another dimension.
IndexAdd(t) ==
  /\ pc[t] = "add"
  /\ IF loc[t].vec.dim = index.d
     THEN /\ index' = [index EXCEPT !.vecs = Append(@, loc[t].vec)]
          /\ pc' = [pc EXCEPT ![t] = "ids"]
          /\ UNCHANGED <<loc, last>>
     ELSE /\ pc' = [pc EXCEPT ![t] = "idle"]
          /\ last' = AddFailed(t)
          /\ loc' = [loc EXCEPT ![t] = NoLocals]
          /\ UNCHANGED index
  /\ UNCHANGED <<flowVars, embVars, scoreVars>>
  /\ UNCHANGED <<faiss, db, id_map, matrix, f_ids, f_index, f_matrix, returned>>

\* Lines 123-126, the right-hand sides: self._matrix is read; an empty matrix
\* gives the vector as the only row, else np.vstack, which raises on a row of
\* another length.
\* The mutant of line 126: the new vector is stacked above the old ones.
MatrixStackOnTop(t) ==
  /\ pc[t] = "stack"
  /\ IF matrix = <<>> \/ matrix[1].dim = loc[t].vec.dim
     THEN /\ loc' = [loc EXCEPT ![t].stacked = <<loc[t].vec>> \o matrix]
          /\ pc' = [pc EXCEPT ![t] = "store"]
          /\ UNCHANGED last
     ELSE /\ pc' = [pc EXCEPT ![t] = "idle"]
          /\ last' = AddFailed(t)
          /\ loc' = [loc EXCEPT ![t] = NoLocals]
  /\ UNCHANGED <<flowVars, embVars, scoreVars>>
  /\ UNCHANGED <<faiss, db, id_map, index, matrix, f_ids, f_index, f_matrix,
                 returned>>

MatrixStack(t) ==
  /\ pc[t] = "stack"
  /\ IF matrix = <<>> \/ matrix[1].dim = loc[t].vec.dim
     THEN /\ loc' = [loc EXCEPT ![t].stacked = Append(matrix, loc[t].vec)]
          /\ pc' = [pc EXCEPT ![t] = "store"]
          /\ UNCHANGED last
     ELSE /\ pc' = [pc EXCEPT ![t] = "idle"]
          /\ last' = AddFailed(t)
          /\ loc' = [loc EXCEPT ![t] = NoLocals]
  /\ UNCHANGED <<flowVars, embVars, scoreVars>>
  /\ UNCHANGED <<faiss, db, id_map, index, matrix, f_ids, f_index, f_matrix,
                 returned>>

\* Lines 124 and 126, the assignment to self._matrix.
MatrixStore(t) ==
  /\ pc[t] = "store"
  /\ matrix' = loc[t].stacked
  /\ pc' = [pc EXCEPT ![t] = "ids"]
  /\ UNCHANGED <<flowVars, embVars, scoreVars>>
  /\ UNCHANGED <<faiss, db, id_map, index, f_ids, f_index, f_matrix, loc,
                 returned, last>>

\* Line 128: self._id_map.append(row_id).
AppendId(t) ==
  /\ pc[t] = "ids"
  /\ id_map' = Append(id_map, loc[t].row_id)
  /\ pc' = [pc EXCEPT ![t] = "persist"]
  /\ UNCHANGED <<flowVars, embVars, scoreVars>>
  /\ UNCHANGED <<faiss, db, index, matrix, f_ids, f_index, f_matrix, loc,
                 returned, last>>

\* The mutant of line 75: the id-map file is not written.
PersistIdsSkipped(t) ==
  /\ pc[t] = "persist"
  /\ pc' = [pc EXCEPT ![t] = "snapshot"]
  /\ UNCHANGED <<flowVars, embVars, scoreVars>>
  /\ UNCHANGED <<faiss, db, id_map, index, matrix, f_ids, f_index, f_matrix,
                 loc, returned, last>>

\* _persist_state, line 75: the id-map file is written.
PersistIds(t) ==
  /\ pc[t] = "persist"
  /\ f_ids' = [exists |-> TRUE, ids |-> id_map]
  /\ pc' = [pc EXCEPT ![t] = "snapshot"]
  /\ UNCHANGED <<flowVars, embVars, scoreVars>>
  /\ UNCHANGED <<faiss, db, id_map, index, matrix, f_index, f_matrix, loc,
                 returned, last>>

\* _persist_state, lines 77-81: the index file, or else the matrix file, is
\* written; add_record returns row_id (line 130).
PersistVectors(t) ==
  /\ pc[t] = "snapshot"
  /\ IF faiss /\ index.exists
     THEN f_index' = index /\ UNCHANGED f_matrix
     ELSE f_matrix' = [exists |-> TRUE, rows |-> matrix] /\ UNCHANGED f_index
  /\ pc' = [pc EXCEPT ![t] = "idle"]
  /\ returned' = returned \cup {loc[t].row_id}
  /\ last' = [NoLast EXCEPT !.op = "add", !.status = "ok",
                            !.contact_hash = loc[t].contact_hash,
                            !.embedding = loc[t].embedding,
                            !.row_id = loc[t].row_id]
  /\ loc' = [loc EXCEPT ![t] = NoLocals]
  /\ UNCHANGED <<flowVars, embVars, scoreVars>>
  /\ UNCHANGED <<faiss, db, id_map, index, matrix, f_ids>>

\* The steps of a call of add_record that has begun.
AddStep(t) ==
  \/ EnsureTest(t)
  \/ EnsureCreate(t)
  \/ IndexAdd(t)
  \/ MatrixStack(t)
  \/ MatrixStore(t)
  \/ AppendId(t)
  \/ PersistIds(t)
  \/ PersistVectors(t)

\* ------------------------------------------------------------------ restart
\* _load_state, lines 64-72, on the files as they are.
LoadedIdMap == IF f_ids.exists THEN f_ids.ids ELSE <<>>
LoadedIndex == IF faiss /\ f_index.exists THEN f_index ELSE NoIndex
LoadedMatrix ==
  IF faiss /\ f_index.exists THEN <<>>
  ELSE IF f_matrix.exists THEN f_matrix.rows ELSE <<>>

\* A new process: __init__ (lines 35-40) resets the fields and loads the files.
Reload ==
  /\ id_map' = LoadedIdMap
  /\ index' = LoadedIndex
  /\ matrix' = LoadedMatrix
  /\ pc' = [t \in Threads |-> "idle"]
  /\ loc' = [t \in Threads |-> NoLocals]
  /\ last' = NoLast
  /\ UNCHANGED <<flowVars, embVars, scoreVars>>
  /\ UNCHANGED <<faiss, db, f_ids, f_index, f_matrix, returned>>

\* The service is stopped between requests and started again.
Restart == AllIdle /\ Reload

\* The service is stopped between requests and started again in an
\* environment where `import faiss` (lines 12-15) succeeds (library) or fails:
\* __init__ resets the fields and _load_state, lines 64-72, reads the files
\* the present backend reads.
RestartWith(library) ==
  /\ AllIdle
  /\ faiss' = library
  /\ id_map' = LoadedIdMap
  /\ index' = IF library /\ f_index.exists THEN f_index ELSE NoIndex
  /\ matrix' = IF library /\ f_index.exists THEN <<>>
               ELSE IF f_matrix.exists THEN f_matrix.rows ELSE <<>>
  /\ pc' = [t \in Threads |-> "idle"]
  /\ loc' = [t \in Threads |-> NoLocals]
  /\ last' = NoLast
  /\ UNCHANGED <<flowVars, embVars, scoreVars>>
  /\ UNCHANGED <<db, f_ids, f_index, f_matrix, returned>>

\* The process dies inside add_record and is started again.
Crash == ~AllIdle /\ Reload

\* -------------------------------------------------------------------- query
\* The vectors query ranks (lines 139 and 147).
RankedVecs == IF UsesIndex THEN index.vecs ELSE matrix

\* Line 140 for the index; line 148 slices, so the matrix has no cap by the
\* id-map's length.
Limit(k) ==
  IF UsesIndex THEN Min(Max(k * OverFetch, k), Len(id_map))
  ELSE Max(k * OverFetch, k)

\* Lines 141 and 147: the inner product of each ranked vector with the query.
Sims(qn) == [i \in 1..Len(RankedVecs) |-> Dot(RankedVecs[i], qn)]

\* index.search and np.argsort(-sims)[:n]: the positions by descending
\* inner product, the first n of them.  Neither orders equal scores in a
\* documented way: every order of the ties is an outcome.
RECURSIVE TopOrders(_, _, _)
TopOrders(sims, S, n) ==
  IF n = 0 \/ S = {} THEN {<<>>}
  ELSE LET best == {i \in S : \A j \in S : sims[j] <= sims[i]}
       IN  UNION {{<<i>> \o rest : rest \in TopOrders(sims, S \ {i}, n - 1)}
                  : i \in best}

\* The mutant of the ranking: the candidates in insertion order.
UnrankedOrders(sims, n) ==
  {[i \in 1..Min(n, Len(sims)) |-> i]}

\* The candidate positions of one search.
Ranked(sims, n) == TopOrders(sims, DOMAIN sims, n)

\* The mutant of the filter of line 159: the contact is not compared.
AnyContact(row, c) == TRUE

\* Line 159: the row is kept when its contact_hash is the requested one.
InScope(row, c) == row.contact_hash = c

\* Lines 172-173: the loop stops once k results are collected.
FirstK(rs, k) == SubSeq(rs, 1, Min(k, Len(rs)))

\* Lines 152-175 on the candidate positions `order`: each candidate's row is
\* fetched by the id the id-map holds at its position; the result carries the
\* row (its id stands for its columns) and the rounded score.
Results(c, k, sims, order) ==
  LET pairs == [i \in 1..Len(order) |->
                  [row_id |-> id_map[order[i]], score |-> sims[order[i]]]]
      Keep(p) == /\ p.row_id \in 1..Len(db)
                 /\ InScope(db[p.row_id], c)
      kept == SelectSeq(pairs, Keep)
  IN  FirstK([i \in 1..Len(kept) |->
                [id |-> kept[i].row_id,
                 contact_hash |-> db[kept[i].row_id].contact_hash,
                 score |-> Round4(kept[i].score)]], k)

\* query, lines 132-175, with the candidate order the search gave.
\* IndexError: line 145 or 150 indexes the id-map past its end.
\* ValueError: the query's dimension is not the stored vectors'.
QueryOutcome(c, q, k, order) ==
  LET qn == Normalize(q)
  IN  IF id_map = <<>> THEN [status |-> "ok", results |-> <<>>]
      ELSE IF RankedVecs # <<>> /\ RankedVecs[1].dim # qn.dim
      THEN [status |-> "ValueError", results |-> <<>>]
      ELSE IF \E i \in DOMAIN order : order[i] > Len(id_map)
      THEN [status |-> "IndexError", results |-> <<>>]
      ELSE [status |-> "ok", results |-> Results(c, k, Sims(qn), order)]

\* The candidate orders a search for q may give.
Orders(q, k) ==
  IF id_map = <<>> \/ (RankedVecs # <<>> /\ RankedVecs[1].dim # q.dim)
  THEN {<<>>}
  ELSE Ranked(Sims(Normalize(q)), Limit(k))

\* One call of query between the steps of the add_record calls.
Query(c, q, k) ==
  /\ \E out \in {QueryOutcome(c, q, k, order) : order \in Orders(q, k)} :
           last' = [NoLast EXCEPT !.op = "query", !.status = out.status,
                      !.contact_hash = c, !.embedding = q, !.k = k,
                      !.results = out.results,
                      !.after_add = IF last.op = "add" /\ last.status = "ok"
                                    THEN last.row_id ELSE 0]
  /\ UNCHANGED <<flowVars, embVars, scoreVars>>
  /\ UNCHANGED <<faiss, db, id_map, index, matrix, f_ids, f_index, f_matrix,
                 pc, loc, returned>>

\* ----------------------------------------------------------------- planner
\* str.strip(): the white space at both ends is dropped.
RECURSIVE LStrip(_)
LStrip(s) == IF s # <<>> /\ Head(s) = " " THEN LStrip(Tail(s)) ELSE s

RECURSIVE RStrip(_)
RStrip(s) ==
  IF s # <<>> /\ s[Len(s)] = " " THEN RStrip(SubSeq(s, 1, Len(s) - 1)) ELSE s

Strip(s) == RStrip(LStrip(s))

\* str(v): a text is itself, None is "None", a number its decimal form.
Str(v) ==
  CASE v.t = "str" -> v.s
    [] v.t = "None" -> <<"None">>
    [] v.t = "int" -> <<ToString(v.n)>>
    [] v.t = "float" -> <<ToString(v.n \div v.d), ".", ToString(v.n % v.d)>>

\* The mutant of int(): a number with a fraction is refused.
IntOnlyOfIntegers(v) ==
  IF v.t = "int" THEN [ok |-> TRUE, n |-> v.n] ELSE [ok |-> FALSE, n |-> 0]

\* int(v): an int is itself, a float is cut towards zero, a text is read as
\* a decimal numeral between white space (ValueError otherwise), None is a
\* TypeError.
ToInt(v) ==
  CASE v.t = "int" -> [ok |-> TRUE, n |-> v.n]
    [] v.t = "float" -> [ok |-> TRUE, n |-> v.n \div v.d]
    [] v.t = "str" ->
         LET core == Strip(v.s)
         IN  IF Len(core) = 1 /\ \E n \in 0..MaxNumeral : ToString(n) = core[1]
             THEN [ok |-> TRUE,
                   n |-> CHOOSE n \in 0..MaxNumeral : ToString(n) = core[1]]
             ELSE [ok |-> FALSE, n |-> 0]
    [] OTHER -> [ok |-> FALSE, n |-> 0]

\* The mutant of the tiers: the anomaly flag is not looked at.
TierOfScoreOnly(st) ==
  IF st.current_score < CriticalBelow THEN "high"
  ELSE IF st.current_score < GoodFrom THEN "medium"
  ELSE "low"

\* _fallback_plan, lines 25 and 33: the branch taken.
Tier(st) ==
  IF st.anomaly_detected \/ st.current_score < CriticalBelow THEN "high"
  ELSE IF st.current_score < GoodFrom THEN "medium"
  ELSE "low"

\* _fallback_plan: the dict of the branch, its two messages naming the alias.
FallbackPlan(st) ==
  CASE Tier(st) = "high" ->
         [recommended_action |->
            PyStr(<<"Draft a gentle check-in text to", " ", st.alias, " ",
                    "and schedule a call reminder tomorrow.">>),
          draft_message |->
            PyStr(<<"Hey", " ", st.alias,
                    ", thinking of you. Want to catch up?">>),
          action_type |-> PyStr(<<"draft_and_schedule">>),
          priority |-> PyStr(<<"high">>),
          schedule_in_hours |-> PyInt(HoursHigh)]
    [] Tier(st) = "medium" ->
         [recommended_action |->
            PyStr(<<"Send", " ", st.alias, " ",
                    "a short update and ask one meaningful question.">>),
          draft_message |->
            PyStr(<<"Hey", " ", st.alias,
                    ", quick update from me. How have you been lately?">>),
          action_type |-> PyStr(<<"draft">>),
          priority |-> PyStr(<<"medium">>),
          schedule_in_hours |-> PyInt(HoursMedium)]
    [] OTHER ->
         [recommended_action |->
            PyStr(<<"Maintain momentum with a light touchpoint for", " ",
                    st.alias, " ", "this week.">>),
          draft_message |->
            PyStr(<<"Hey", " ", st.alias,
                    ", hope your week is going well.">>),
          action_type |-> PyStr(<<"deprioritize">>),
          priority |-> PyStr(<<"low">>),
          schedule_in_hours |-> PyInt(HoursLow)]

\* _sanitize_output, lines 110-111: dict(fallback) updated with the reply.
Updated(fallback, result) ==
  [key \in PlanKeys |->
     IF result[key] = Absent THEN fallback[key] ELSE result[key]]

\* _sanitize_output, lines 113-119.
Sanitize(result, st) ==
  LET fallback == FallbackPlan(st)
      clean == Updated(fallback, result)
      text(key) == LET stripped == Strip(Str(clean[key]))
                   IN  IF stripped = <<>> THEN fallback[key]
                       ELSE PyStr(stripped)
      hours == LET i == ToInt(clean["schedule_in_hours"])
               IN  IF i.ok THEN PyInt(i.n) ELSE fallback["schedule_in_hours"]
  IN  [key \in PlanKeys |->
         IF key = "schedule_in_hours" THEN hours ELSE text(key)]

\* What a provider may do with a call: "raises" (the request fails or times
\* out), "unparseable" (json.loads raises), "falsy" (null, 0, "", [] or {}:
\* `result or {}` is {}), "scalar" (a number or a text, which dict.update
\* refuses), "dict" (a JSON object).
FailingKinds == {"raises", "unparseable", "scalar"}
ReplyKinds == FailingKinds \cup {"falsy", "dict"}

\* The mutant of recommend: a failure of the provider returns no plan.
RecommendUnguarded(prov, rep, st) ==
  IF prov = "none" THEN FallbackPlan(st)
  ELSE IF rep.kind \in FailingKinds THEN NoPlan
  ELSE Sanitize(IF rep.kind = "falsy" THEN NoPlan ELSE rep.dict, st)

\* PlannerLLM.recommend: the sanitised reply of the provider, and the
\* fallback plan when there is no provider or anything raised.
Recommend(prov, rep, st) ==
  IF prov = "none" THEN FallbackPlan(st)
  ELSE IF rep.kind \in FailingKinds THEN FallbackPlan(st)
  ELSE Sanitize(IF rep.kind = "falsy" THEN NoPlan ELSE rep.dict, st)

\* ----------------------------------------------------------------- scoring
\* The mutant of INTERACTION_WEIGHTS: a missed call counts for the contact.
MissedCallRewarded ==
  [call |-> 800, text |-> 400, ignored_message |-> -700, auto_nudge |-> 200,
   missed_call |-> 300]

InteractionWeights ==
  [call |-> 800, text |-> 400, ignored_message |-> -700, auto_nudge |-> 200,
   missed_call |-> -300]

IntentWeights ==
  [support |-> 250, check_in |-> 120, plan_event |-> 200, small_talk |-> 50,
   follow_up |-> 150, request_help |-> 100]

\* a / b rounded to the nearest integer, for b > 0.
RoundDiv(a, b) == (2 * a + b) \div (2 * b)

\* clamp_score, line 43.
ClampScore(value, low, high) == Max(low, Min(high, value))

\* The mutant of band_for_score: a score of exactly 75 is not yet good.
BandAbove(score) ==
  IF score > BandGood * 100 THEN "good"
  ELSE IF score >= BandFading * 100 THEN "fading"
  ELSE "critical"

\* band_for_score, lines 47-52, of a score in hundredths.
BandForScore(score) ==
  IF score >= BandGood * 100 THEN "good"
  ELSE IF score >= BandFading * 100 THEN "fading"
  ELSE "critical"

\* risk_level_for_score, lines 55-60, of a score in hundredths.
RiskLevelForScore(score, anomaly_detected) ==
  IF anomaly_detected \/ score < RiskHigh * 100 THEN "high"
  ELSE IF score < RiskMedium * 100 THEN "medium"
  ELSE "low"

\* _days_between, line 65, of two times in days.
DaysBetween(a, b) == Max(a - b, 0)

\* exp(-rate) in 10^-5, by its series 1 - x + x^2/2 - ..., for a rate of
\* at most 1: term n is term n-1 times x / n.
RECURSIVE ExpSeries(_, _, _)
ExpSeries(rate, n, term) ==
  IF term = 0 THEN 0
  ELSE term - ExpSeries(rate, n + 1, (term * rate) \div (n * 10000))

\* math.exp(-rate * days) in 10^-4: exp(-rate) raised to the days.
RECURSIVE ExpNeg(_, _)
ExpNeg(rate, days) ==
  IF days = 0 THEN 10000
  ELSE RoundDiv(ExpNeg(rate, days - 1) * RoundDiv(ExpSeries(rate, 1, 100000), 10),
                10000)

\* The mutant of interaction_impact: the sign of the impact is turned.
ImpactNegated(event, reference_time, hp) ==
  LET days_old == DaysBetween(reference_time, event.ts)
      weight == IF event.intent \in DOMAIN IntentWeights
                THEN IntentWeights[event.intent] ELSE DefaultIntentWeight
      weighted == RoundDiv((InteractionWeights[event.interaction_type] + weight
                              + SentimentWeight * event.sentiment)
                             * hp.interaction_multiplier, 100)
  IN  0 - RoundDiv(weighted * ExpNeg(RecencyGamma, days_old), 1000)

\* interaction_impact, lines 74-85, in thousandths of a point.
InteractionImpact(event, reference_time, hp) ==
  LET base_weight == InteractionWeights[event.interaction_type]
      intent_weight == IF event.intent \in DOMAIN IntentWeights
                       THEN IntentWeights[event.intent]
                       ELSE DefaultIntentWeight
      sentiment_term == SentimentWeight * event.sentiment
      days_old == DaysBetween(reference_time, event.ts)
      recency_multiplier == ExpNeg(RecencyGamma, days_old)
      weighted == RoundDiv((base_weight + intent_weight + sentiment_term)
                             * hp.interaction_multiplier, 100)
  IN  RoundDiv(weighted * recency_multiplier, 1000)

\* sorted(events, key=ts): a stable insertion sort, equal times keeping the
\* caller's order.
RECURSIVE InsertByTs(_, _)
InsertByTs(sorted, event) ==
  IF sorted = <<>> THEN <<event>>
  ELSE IF sorted[Len(sorted)].ts <= event.ts THEN Append(sorted, event)
  ELSE Append(InsertByTs(SubSeq(sorted, 1, Len(sorted) - 1), event),
              sorted[Len(sorted)])

\* The mutant of the sort: the events stay in the caller's order.
KeptInCallerOrder(events) == events

RECURSIVE SortByTs(_)
SortByTs(events) ==
  IF events = <<>> THEN <<>>
  ELSE InsertByTs(SortByTs(SubSeq(events, 1, Len(events) - 1)),
                  events[Len(events)])

\* The mutant of update_score: the sum is not clamped.
UpdateScoreUnclamped(old_score, event, delta_t_days, reference_time, hp) ==
  RoundDiv(old_score * ExpNeg(hp.lambda_decay, Max(delta_t_days, 0)), 10000)
    + InteractionImpact(event, reference_time, hp)

\* update_score, lines 118-120, in thousandths of a point.
UpdateScore(old_score, event, delta_t_days, reference_time, hp) ==
  LET decayed == RoundDiv(old_score
                            * ExpNeg(hp.lambda_decay, Max(delta_t_days, 0)),
                          10000)
      impact == InteractionImpact(event, reference_time, hp)
  IN  ClampScore(decayed + impact, 0, MaxScore * 1000)

\* The loop of compute_relationship_score, lines 139-149: the scores after
\* each event of the sorted list, the first gap being zero.
RECURSIVE Fold(_, _, _, _)
Fold(event_list, start, now, hp) ==
  IF event_list = <<>> THEN <<>>
  ELSE LET n == Len(event_list)
           before == Fold(SubSeq(event_list, 1, n - 1), start, now, hp)
           score == IF n = 1 THEN start ELSE before[n - 1]
           prev_ts == IF n = 1 THEN event_list[1].ts ELSE event_list[n - 1].ts
       IN  Append(before,
                  UpdateScore(score, event_list[n],
                              DaysBetween(event_list[n].ts, prev_ts), now, hp))

\* The mutant of compute_relationship_score: no decay after the last event.
ScoreWithoutTail(events, previous_score, as_of, hp) ==
  LET event_list == SortByTs(events)
      start == ClampScore(previous_score, 0, MaxScore * 1000)
      steps == Fold(event_list, start, as_of, hp)
  IN  IF event_list = <<>>
      THEN [score |-> RoundDiv(start, 10), steps |-> <<>>]
      ELSE [score |-> RoundDiv(steps[Len(event_list)], 10), steps |-> steps]

\* compute_relationship_score, lines 130-154: the score in hundredths, with
\* the scores of the fold (in thousandths).
ComputeRelationshipScore(events, previous_score, as_of, hp) ==
  LET event_list == SortByTs(events)
      start == ClampScore(previous_score, 0, MaxScore * 1000)
      steps == Fold(event_list, start, as_of, hp)
      n == Len(event_list)
      tail_days == DaysBetween(as_of, event_list[n].ts)
      tailed == RoundDiv(steps[n] * ExpNeg(hp.lambda_decay, tail_days), 10000)
  IN  IF event_list = <<>>
      THEN [score |-> RoundDiv(start, 10), steps |-> <<>>]
      ELSE [score |-> RoundDiv(ClampScore(tailed, 0, MaxScore * 1000), 10),
            steps |-> steps]

\* The gaps of train_temporal_decay, lines 96-99, in days.
Gaps(event_list) ==
  [i \in 1..(Len(event_list) - 1) |->
     DaysBetween(event_list[i + 1].ts, event_list[i].ts)]

RECURSIVE Sum(_)
Sum(seq) == IF seq = <<>> THEN 0 ELSE Head(seq) + Sum(Tail(seq))

LargestOf(seq) == CHOOSE x \in {seq[i] : i \in DOMAIN seq} :
                    \A i \in DOMAIN seq : seq[i] <= x
SmallestOf(seq) == CHOOSE x \in {seq[i] : i \in DOMAIN seq} :
                     \A i \in DOMAIN seq : x <= seq[i]

\* The mutant of train_temporal_decay: the trained rate is not clamped.
TrainUnclamped(events, base_lambda) ==
  LET gaps == Gaps(SortByTs(events))
      n == Len(gaps)
  IN  IF Len(events) < 2 THEN base_lambda
      ELSE base_lambda
             + RoundDiv(AvgGapWeight * Min(Sum(gaps), GapCap * n), n)
             + VariabilityWeight * Min(LargestOf(gaps) - SmallestOf(gaps), GapCap)

\* train_temporal_decay, lines 92-107, in 10^-4: min(avg_gap, 7) is
\* min(sum, 7 n) / n.
TrainTemporalDecay(events, base_lambda) ==
  LET event_list == SortByTs(events)
      gaps == Gaps(event_list)
      n == Len(gaps)
      variability == LargestOf(gaps) - SmallestOf(gaps)
      trained == base_lambda
                   + RoundDiv(AvgGapWeight * Min(Sum(gaps), GapCap * n), n)
                   + VariabilityWeight * Min(variability, GapCap)
  IN  IF Len(event_list) < 2 THEN base_lambda
      ELSE Max(TrainedMin, Min(TrainedMax, trained))

\* ---------------------------------------------------------------- embedder
\* A text is the sequence of the summaries joined into it.  What the three
\* sources make of it: the OpenAI model (text-embedding-3-small, whose
\* vectors are returned as they come) a vector of OtherDim coordinates,
\* the local model and _hash_embedding one of EmbeddingDim coordinates,
\* each the same vector for the same text.
OpenAIEmbedding(text) == EWide
LocalEmbedding(text) == IF text[1] = "met for coffee" THEN E34 ELSE E43
HashEmbedding(text) == IF text[1] = "met for coffee" THEN E43 ELSE E68

\* The mutant of line 56: the failed client is kept.
ClientKept(emb) == emb

\* embed_texts, line 56: `self._openai = None` after a failed request.
ClientDropped(emb) == [emb EXCEPT !.openai = FALSE]

\* embed_texts, lines 58-69, for one text: the local model when it is or
\* can be loaded (loads: whether _ensure_local_model gets one), the hash
\* embedding otherwise.
LocalOrHash(emb, text, loads, invoked, failures) ==
  LET has == emb.local_model \/ loads
  IN  [embedder |-> [emb EXCEPT !.local_model = has],
       result |-> [source |-> IF has THEN "local" ELSE "hash",
                   text |-> text,
                   vec |-> IF has THEN LocalEmbedding(text)
                           ELSE HashEmbedding(text),
                   invoked |-> invoked, failed |-> invoked, loaded |-> has,
                   failures |-> failures]]

\* embed_texts, lines 41-69, for one text: every way the call may go, with
\* the embedder it leaves.  The request to OpenAI is made when there is a
\* client; it returns vectors or raises.
EmbedOutcomes(emb, text, failures) ==
  (IF emb.openai
   THEN {[embedder |-> emb,
          result |-> [source |-> "openai", text |-> text,
                      vec |-> OpenAIEmbedding(text), invoked |-> TRUE,
                      failed |-> FALSE, loaded |-> emb.local_model,
                      failures |-> failures]]}
          \cup {LocalOrHash(ClientDropped(emb), text, loads, TRUE,
                            failures + 1) : loads \in BOOLEAN}
   ELSE {LocalOrHash(emb, text, loads, FALSE, failures) : loads \in BOOLEAN})

\* ingest, lines 41-42: the summaries of the request are embedded.
EmbedTexts(texts) ==
  /\ AllIdle
  /\ \E text \in texts :
       \E out \in EmbedOutcomes(embedder, text, embedded.failures) :
         /\ embedder' = out.embedder
         /\ embedded' = out.result
  /\ UNCHANGED <<storeVars, flowVars, scoreVars>>

\* ingest, lines 45-60: add_record with an event and its vector.
IngestAdd(cap) ==
  /\ embedded.source # "none"
  /\ \E c \in Contacts : InsertRow(1, c, embedded.vec, cap)

\* ---------------------------------------------------------------- requests
\* A MetadataEvent as the caller sends it: the time in days, the sentiment
\* in hundredths, the metadata as the set of its top-level keys.
MetadataEvent(ts, interaction_type, sentiment, intent, summary, metadata) ==
  [ts |-> ts, interaction_type |-> interaction_type, sentiment |-> sentiment,
   intent |-> intent, summary |-> summary, metadata |-> metadata]

ForbiddenKeys == {"raw_message", "message_text", "full_text", "chat_text"}

\* The mutant of validate_privacy: any metadata passes.
PrivacyUnchecked(metadata) == TRUE

\* validate_privacy, lines 28-34.
ValidatePrivacy(metadata) == ForbiddenKeys \cap metadata = {}

\* The construction of a MetadataEvent, lines 18-34.
ValidEvent(ev) ==
  /\ ev.interaction_type \in DOMAIN InteractionWeights
  /\ SentimentMin <= ev.sentiment /\ ev.sentiment <= SentimentMax
  /\ SummaryMin <= Len(ev.summary) /\ Len(ev.summary) <= SummaryMax
  /\ ValidatePrivacy(ev.metadata)

\* The construction of a request: of IngestRequest, and of ScoreRequest and
\* ProcessContactRequest with their numeric fields.
ValidRequest(r) ==
  /\ \A i \in DOMAIN r.events : ValidEvent(r.events[i])
  /\ r.op = "score" =>
       /\ 0 <= r.previous_score /\ r.previous_score <= MaxScore * 1000
       /\ MultiplierMin <= r.interaction_multiplier
       /\ r.interaction_multiplier <= MultiplierMax
       /\ OverrideMin <= r.base_lambda /\ r.base_lambda <= OverrideMax

\* The request a handler is called with: FastAPI answers 422 to a body that
\* does not construct, and calls no handler.
Constructed(r) ==
  [r EXCEPT !.status = IF ValidRequest(r) THEN "accepted" ELSE "rejected",
            !.base = Len(db)]

\* The handler of the request has returned.
Answered ==
  \/ request.status # "accepted"
  \/ request.op = "ingest" /\ Len(db) = request.base + Len(request.events)
  \/ request.op = "score" /\ scored.request = request

\* A request arrives once the one before is answered: the requests are
\* taken one at a time here, the concurrent adds being SpecConc's.
Receive(requests) ==
  /\ AllIdle
  /\ Answered
  /\ \E r \in requests : request' = Constructed(r)
  /\ scored' = NoScored
  /\ UNCHANGED <<storeVars, flowVars, embVars>>

\* safe_metadata of ingest, lines 46-52: its keys.
SafeMetadata(ev) ==
  {"ts", "interaction_type", "sentiment", "intent"} \cup ev.metadata

\* ingest, lines 41-60, one event of the request at a time: its summary
\* embedded (here by the hash, no provider and no local model) and its
\* record added.
IngestEvent(cap) ==
  /\ AllIdle
  /\ request.op = "ingest" /\ request.status = "accepted"
  /\ LET i == Len(db) - request.base + 1
     IN  /\ i <= Len(request.events)
         /\ \E c \in {"A"} :
              InsertRecord(1, c, HashEmbedding(<<request.events[i].summary>>),
                           cap, SafeMetadata(request.events[i]))

\* The mutant of the scoring of a request: the score leans on the memory.
ScoredWithMemory(r) ==
  LET lambda_used == IF r.train THEN TrainTemporalDecay(r.events, r.base_lambda)
                     ELSE r.base_lambda
      hp == [lambda_decay |-> lambda_used,
             interaction_multiplier |-> r.interaction_multiplier]
      out == ComputeRelationshipScore(r.events, r.previous_score, r.as_of, hp)
      score == Min(out.score + Len(db), MaxScore * 100)
  IN  [op |-> "score", request |-> r, lambda_used |-> lambda_used,
       trained |-> TrainTemporalDecay(r.events, r.base_lambda),
       score |-> score, steps |-> out.steps,
       band |-> BandForScore(score),
       risk |-> [a \in BOOLEAN |-> RiskLevelForScore(score, a)]]

\* The scoring of a request, process_contact lines 105-121 and 139 (score,
\* lines 67-74, with the default parameters): the decay trained or not, the
\* score, its band, and its risk level for either outcome of the anomaly
\* test.
ScoredOf(r) ==
  LET lambda_used == IF r.train THEN TrainTemporalDecay(r.events, r.base_lambda)
                     ELSE r.base_lambda
      hp == [lambda_decay |-> lambda_used,
             interaction_multiplier |-> r.interaction_multiplier]
      out == ComputeRelationshipScore(r.events, r.previous_score, r.as_of, hp)
  IN  [op |-> "score", request |-> r, lambda_used |-> lambda_used,
       trained |-> TrainTemporalDecay(r.events, r.base_lambda),
       score |-> out.score, steps |-> out.steps,
       band |-> BandForScore(out.score),
       risk |-> [a \in BOOLEAN |-> RiskLevelForScore(out.score, a)]]

Score ==
  /\ AllIdle
  /\ request.op = "score" /\ request.status = "accepted"
  /\ scored.request # request
  /\ scored' = ScoredOf(request)
  /\ UNCHANGED <<storeVars, flowVars, embVars, request>>

\* -------------------------------------------------------------------- flow
\* The mutant of _analyze_anomaly: a drop of exactly the threshold, and a
\* sentiment of exactly the threshold, are not anomalies.
AnalyzeAnomalyStrict(st) ==
  LET drop == st.previous_score - st.current_score > DropThreshold
      negative == \E i \in DOMAIN st.recent_metadata :
                    st.recent_metadata[i].sentiment < NegativeSentiment
  IN  [anomaly_detected |-> drop \/ negative,
       anomaly_reason |-> IF drop /\ negative THEN "drop_and_negative_sentiment"
                          ELSE IF drop THEN "score_drop"
                          ELSE IF negative THEN "negative_sentiment"
                          ELSE "none"]

\* _analyze_anomaly, lines 37-57.  Scores are in points, sentiments in
\* hundredths.
AnalyzeAnomaly(st) ==
  LET score_drop == st.previous_score - st.current_score
      negative_signal == \E i \in DOMAIN st.recent_metadata :
                           st.recent_metadata[i].sentiment <= NegativeSentiment
      anomaly == score_drop >= DropThreshold \/ negative_signal
      reason == IF score_drop >= DropThreshold /\ negative_signal
                THEN "drop_and_negative_sentiment"
                ELSE IF score_drop >= DropThreshold THEN "score_drop"
                ELSE IF negative_signal THEN "negative_sentiment"
                ELSE "none"
  IN  [anomaly_detected |-> anomaly, anomaly_reason |-> reason]

\* The mutant of the router: the memory is never consulted.
RouteAlwaysPlan(st) == "plan_action"

\* _route_after_anomaly, line 61.
RouteAfterAnomaly(st) ==
  IF st.anomaly_detected THEN "query_rag" ELSE "plan_action"

\* flow.run(flow_state): graph.invoke enters the graph at START with the
\* caller's keys, between two requests to the store.
StartRun(inputs) ==
  /\ node = "idle"
  /\ AllIdle
  /\ \E in \in inputs :
       state' = [NoState EXCEPT !.contact_hash = in.contact_hash,
                                !.alias = in.alias,
                                !.current_score = in.current_score,
                                !.previous_score = in.previous_score,
                                !.recent_metadata = in.recent_metadata]
  /\ node' = "analyze_anomaly"
  /\ UNCHANGED <<provider, analysis, visited, calls, reply>>
  /\ UNCHANGED <<storeVars, embVars, scoreVars>>

\* The node analyze_anomaly and the conditional edge after it.
Analyze ==
  /\ node = "analyze_anomaly"
  /\ LET out == AnalyzeAnomaly(state)
         merged == [state EXCEPT !.anomaly_detected = out.anomaly_detected,
                                 !.anomaly_reason = out.anomaly_reason]
     IN  /\ state' = merged
         /\ analysis' = [set |-> TRUE,
                         anomaly_detected |-> out.anomaly_detected,
                         anomaly_reason |-> out.anomaly_reason]
         /\ node' = RouteAfterAnomaly(merged)
  /\ visited' = Append(visited, "analyze_anomaly")
  /\ UNCHANGED <<provider, calls, reply>>
  /\ UNCHANGED <<storeVars, embVars, scoreVars>>

\* Lines 64-68: the summaries of the recent events that have one.
Summaries(st) ==
  LET HasSummary(item) == item.summary # ""
  IN  SelectSeq(st.recent_metadata, HasSummary)

\* Line 70: the last three summaries, joined.
JoinedSummaries(st) ==
  LET all == Summaries(st)
      summary(i) == all[i].summary
  IN  [i \in 1..Min(Len(all), LastSummaries) |->
         summary(Len(all) - Min(Len(all), LastSummaries) + i)]

\* Lines 78-83: the context built from what query returned.
ContextOf(results) ==
  IF results = <<>> THEN [kind |-> "no_similar", ids |-> <<>>]
  ELSE [kind |-> "snippets",
        ids |-> [i \in DOMAIN results |-> results[i].id]]

\* The node query_rag, lines 63-83, and the edge to plan_action.  q is the
\* vector embed_texts returns for the joined summaries; an exception of
\* query leaves the graph.
QueryRag ==
  /\ node = "query_rag"
  /\ IF Summaries(state) = <<>>
     THEN /\ state' = [state EXCEPT
                         !.rag_context = [kind |-> "no_history", ids |-> <<>>]]
          /\ node' = "plan_action"
          /\ UNCHANGED embVars
     ELSE \E e \in EmbedOutcomes(embedder, JoinedSummaries(state),
                                 embedded.failures) :
            /\ embedder' = e.embedder
            /\ embedded' = e.result
            /\ \E out \in {QueryOutcome(state.contact_hash, e.result.vec,
                                        QueryK, order) :
                             order \in Orders(e.result.vec, QueryK)} :
                 IF out.status = "ok"
                 THEN /\ state' = [state EXCEPT
                                     !.rag_context = ContextOf(out.results)]
                      /\ node' = "plan_action"
                 ELSE /\ state' = state
                      /\ node' = "raised"
  /\ visited' = Append(visited, "query_rag")
  /\ UNCHANGED <<provider, analysis, calls, reply>>
  /\ UNCHANGED <<storeVars, scoreVars>>

\* The node plan_action, lines 85-96, and the edge to schedule_action: one
\* call of recommend, whose dict is merged into the state.
\* _sanitize_output, lines 110-111 and 121: clean starts as the fallback and
\* takes every key of the result, and is returned whole; the keys beside the
\* plan's are those of the reply whenever the reply is sanitised.
Carried(prov, rep) ==
  IF prov = "none" \/ rep.kind \in FailingKinds \/ rep.kind = "falsy"
  THEN NoExtra
  ELSE rep.extra

\* The update a node returns, written to the channels of StateGraph(FlowState)
\* (line 104): each key of FlowState the update holds takes its value.
Merged(st, update) ==
  [key \in DOMAIN st |->
     IF key \in DOMAIN update THEN update[key] ELSE st[key]]

PlanAction(replies) ==
  /\ node = "plan_action"
  /\ \E rep \in IF provider = "none" THEN {NoReply} ELSE replies :
       /\ reply' = rep
       /\ state' = [Merged(state, Carried(provider, rep))
                      EXCEPT !.plan = Recommend(provider, rep, state)]
  /\ calls' = calls + 1
  /\ node' = "schedule_action"
  /\ visited' = Append(visited, "plan_action")
  /\ UNCHANGED <<provider, analysis>>
  /\ UNCHANGED <<storeVars, embVars, scoreVars>>

\* datetime.now() + timedelta(hours): beyond DateRangeHours on either side
\* the sum leaves the years 1..9999 and the addition raises OverflowError.
DateOverflows(hours) == hours > DateRangeHours \/ hours < -DateRangeHours

\* The node schedule_action, lines 98-101, and the edge to END.
ScheduleAction ==
  /\ node = "schedule_action"
  /\ LET given == state.plan["schedule_in_hours"]
         hours == ToInt(IF given = Absent THEN PyInt(ScheduleDefault)
                        ELSE given)
     IN  IF hours.ok /\ ~DateOverflows(hours.n)
         THEN /\ state' = [state EXCEPT !.schedule_at =
                             [set |-> TRUE, in_hours |-> hours.n]]
              /\ node' = "END"
         ELSE /\ state' = state
              /\ node' = "raised"
  /\ visited' = Append(visited, "schedule_action")
  /\ UNCHANGED <<provider, analysis, calls, reply>>
  /\ UNCHANGED <<storeVars, embVars, scoreVars>>

\* ------------------------------------------------------- inputs of the flow
Event(sentiment, summary) == [sentiment |-> sentiment, summary |-> summary]

\* Events around the sentiment threshold, each with the summary a
\* MetadataEvent must have.
Events == {Event(NegativeSentiment - 1, "met for coffee"),
           Event(NegativeSentiment, "missed call"),
           Event(NegativeSentiment + 1, "long call"),
           Event(50, "birthday party")}

\* The event lists of at most MaxEvents events.
EventLists ==
  UNION {[1..n -> Events] : n \in 0..MaxEvents}

FlowInput(c, cur, prev, events) ==
  [contact_hash |-> c, alias |-> "Sam", current_score |-> cur,
   previous_score |-> prev, recent_metadata |-> events]

\* Runs around the drop threshold.
FlowInputs ==
  {FlowInput(c, cur, prev, events) :
     c \in {"A"},
     cur \in {GoodFrom - DropThreshold - 1, GoodFrom - DropThreshold,
              GoodFrom - DropThreshold + 1, GoodFrom},
     prev \in {GoodFrom}, events \in EventLists}

Reply(kind, dict) == [kind |-> kind, dict |-> dict, extra |-> NoExtra]

\* A reply the prompt asks for, and one whose hours no date can hold.
GoodDict ==
  [recommended_action |-> PyStr(<<"Call", " ", "Sam">>),
   draft_message |-> PyStr(<<"Hi", " ", "Sam">>),
   action_type |-> PyStr(<<"reminder">>),
   priority |-> PyStr(<<"low">>),
   schedule_in_hours |-> PyInt(12)]

FarDict == [GoodDict EXCEPT !["schedule_in_hours"] = PyInt(2 * DateRangeHours)]

FlowReplies ==
  {Reply("raises", NoPlan), Reply("dict", GoodDict), Reply("dict", FarDict)}

\* Replies that hold keys of FlowState beside the plan's.
OverridingReplies ==
  {[Reply("dict", GoodDict) EXCEPT !.extra = extra] :
     extra \in {NoExtra,
                ("anomaly_detected" :> FALSE) @@ ("anomaly_reason" :> "none"),
                ("anomaly_detected" :> TRUE),
                ("contact_hash" :> "B") @@ ("current_score" :> GoodFrom)
                  @@ ("previous_score" :> 0)}}
    \cup {Reply("raises", NoPlan)}

\* Runs around the tiers of the fallback plan, with and without an anomaly.
PlannerInputs ==
  {FlowInput("A", cur, 50, events) :
     cur \in {CriticalBelow - 1, CriticalBelow, GoodFrom - 1, GoodFrom},
     events \in {<<>>, <<Event(NegativeSentiment, "long call")>>}}

\* What a JSON object may hold under each key.
TextValues(good) ==
  {Absent, PyNone, PyStr(<<>>), PyStr(<<" ">>)} \cup {PyStr(t) : t \in good}

HoursValues ==
  {Absent, PyNone, PyInt(12), PyFloat(27, 10), PyStr(<<" ", "12">>),
   PyStr(<<"soon">>), PyInt(2 * DateRangeHours)}

DictReplies ==
  {[recommended_action |-> ra, draft_message |-> dm, action_type |-> at,
    priority |-> pr, schedule_in_hours |-> h] :
     ra \in TextValues({<<" ", "Call", " ", "Sam", " ">>}),
     dm \in {Absent, PyNone, PyStr(<<"Hi", " ", "Sam">>)},
     at \in TextValues({<<"reminder">>, <<"escalate">>}),
     pr \in TextValues({<<"low">>, <<"urgent">>}),
     h \in HoursValues}

AllReplies ==
  {Reply(kind, NoPlan) : kind \in ReplyKinds \ {"dict"}}
    \cup {Reply("dict", d) : d \in DictReplies}

\* ------------------------------------------------------------ specifications
\* One request at a time, any embedding, restarts between requests.
Add(cap, embs) ==
  \E c \in Contacts, e \in embs : InsertRow(1, c, e, cap)

Ask == \E c \in Contacts, q \in QueryEmbs, k \in 1..MaxK : Query(c, q, k)

\* With one request at a time a query changes nothing a later query reads:
\* each state of the store is queried once, by every query.
AskOnce == AllIdle /\ last.op # "query" /\ Ask

Next ==
  \/ Add(MaxRows, EmbsAll)
  \/ AddStep(1)
  \/ Restart
  \/ AskOnce

Spec == Init /\ [][Next]_vars

\* One request at a time, embeddings of the fixed dimension, more rows: the
\* candidate window of query fills with other contacts' records.
NextFlood ==
  \/ Add(MaxFloodRows, EmbsFixed)
  \/ AddStep(1)
  \/ AskOnce

SpecFlood == Init /\ [][NextFlood]_vars

\* One request at a time; the process may die at any step of add_record.
NextCrash ==
  \/ Add(MaxCrashRows, EmbsFixed)
  \/ AddStep(1)
  \/ Restart
  \/ Crash
  \/ AskOnce

SpecCrash == Init /\ [][NextCrash]_vars

\* One request at a time; between requests the service may be started again
\* with or without the faiss library.
NextSwitch ==
  \/ Add(MaxSwitchRows, EmbsFixed)
  \/ AddStep(1)
  \/ \E library \in BOOLEAN : RestartWith(library)
  \/ AskOnce

SpecSwitch == Init /\ [][NextSwitch]_vars

\* The request threads of the synchronous handlers run add_record and query
\* side by side.
NextConc ==
  \/ \E t \in Threads, c \in Contacts, e \in EmbsFixed :
       InsertRow(t, c, e, MaxConcRows)
  \/ \E t \in Threads : AddStep(t)
  \/ Ask

SpecConc == Init /\ [][NextConc]_vars

\* One run of the flow over a store that earlier requests have filled, with
\* vectors of either dimension.
EmbsFlow == {E34, EWide}

NextFlow ==
  \/ node = "idle" /\ Add(MaxFlowRows, EmbsFlow)
  \/ AddStep(1)
  \/ StartRun(FlowInputs)
  \/ Analyze
  \/ QueryRag
  \/ PlanAction(FlowReplies)
  \/ ScheduleAction

SpecFlow == InitFlow /\ [][NextFlow]_vars

\* One run of the flow over the empty store, the provider of the planner
\* replying in every way.
NextPlanner ==
  \/ StartRun(PlannerInputs)
  \/ Analyze
  \/ QueryRag
  \/ PlanAction(AllReplies)
  \/ ScheduleAction

SpecPlanner == InitFlow /\ [][NextPlanner]_vars

\* One run of the flow over the empty store, the provider of the planner
\* replying with keys of FlowState in its JSON object.
NextOverride ==
  \/ StartRun(FlowInputs)
  \/ Analyze
  \/ QueryRag
  \/ PlanAction(OverridingReplies)
  \/ ScheduleAction

SpecOverride == InitFlow /\ [][NextOverride]_vars

\* Ingest requests of one event each, their summaries embedded by the
\* EmbeddingClient, with any setting of its provider.
IngestTexts == {<<"met for coffee">>, <<"long call">>}

InitEmbed ==
  /\ InitStore
  /\ provider = "none"
  /\ FlowAtRest
  /\ embedder \in {Embedder(openai) : openai \in BOOLEAN}
  /\ embedded = NoEmbedded
  /\ ScoringAtRest

NextEmbed ==
  \/ EmbedTexts(IngestTexts)
  \/ IngestAdd(MaxEmbedRows)
  \/ AddStep(1)

SpecEmbed == InitEmbed /\ [][NextEmbed]_vars

\* The inputs of the scoring functions: lists of events of every interaction
\* type, of either sign of sentiment, with known intents and an unknown one,
\* on any day; any previous score at or between the thresholds; a present before,
\* at or after the events; the least, the default and the largest decay a
\* caller can pass, trained or not; the default and the largest multiplier.
EventKinds ==
  {<<"call", 90, "support">>, <<"text", 70, "follow_up">>,
   <<"auto_nudge", 0, "check_in">>, <<"ignored_message", -90, "banter">>,
   <<"missed_call", -35, "support">>}

ScoreEvents ==
  {MetadataEvent(ts, k[1], k[2], k[3], "met for coffee", {}) :
     ts \in 0..MaxDay, k \in EventKinds}

ScoreEventLists ==
  UNION {[1..n -> ScoreEvents] : n \in 0..MaxScoreEvents}

PreviousScores == {0, 45000, 50000, 70000, 75000, 100000}

Lambdas == {OverrideMin, LambdaDefault, OverrideMax}

ScoreRequest(events, previous_score, as_of, base_lambda, train, multiplier) ==
  [op |-> "score", status |-> "none", events |-> events,
   previous_score |-> previous_score, as_of |-> as_of,
   base_lambda |-> base_lambda, train |-> train,
   interaction_multiplier |-> multiplier, base |-> 0]

\* The scoring functions applied to every input, beside an empty store of
\* the fallback backend.
InitScore ==
  /\ InitStore
  /\ ~faiss
  /\ provider = "none"
  /\ FlowAtRest
  /\ embedder = Embedder(FALSE)
  /\ embedded = NoEmbedded
  /\ \E events \in ScoreEventLists, previous_score \in PreviousScores,
        as_of \in 0..(MaxDay + 1), base_lambda \in Lambdas, train \in BOOLEAN,
        multiplier \in {100, MultiplierMax} :
       request = Constructed(ScoreRequest(events, previous_score, as_of,
                                          base_lambda, train, multiplier))
  /\ scored = NoScored

NextScore == Score

SpecScore == InitScore /\ [][NextScore]_vars

\* The scoring functions applied to requests that are scored again with their
\* events in another order or at a later time: a previous score at either
\* end of the range or in its middle, the least or the default decay as
\* given, the default or the largest multiplier.
InitRescore ==
  /\ InitStore
  /\ ~faiss
  /\ provider = "none"
  /\ FlowAtRest
  /\ embedder = Embedder(FALSE)
  /\ embedded = NoEmbedded
  /\ \E events \in ScoreEventLists, previous_score \in {0, 50000, 100000},
        as_of \in 0..(MaxDay + 1), base_lambda \in {OverrideMin, LambdaDefault},
        multiplier \in {100, MultiplierMax} :
       request = Constructed(ScoreRequest(events, previous_score, as_of,
                                          base_lambda, FALSE, multiplier))
  /\ scored = NoScored

SpecRescore == InitRescore /\ [][NextScore]_vars

\* Requests as callers send them, well formed or not: an event at each limit
\* of each validated field and just beyond it, with each forbidden key, and
\* with an interaction type outside the enumeration.
RECURSIVE Repeated(_, _)
Repeated(text, n) == IF n = 0 THEN "" ELSE text \o Repeated(text, n - 1)

RawSentiments == {SentimentMin - 1, SentimentMin, SentimentMax, SentimentMax + 1}
RawSummaries ==
  {"coffee!", "call mum", Repeated("0123456789", 28),
   Repeated("0123456789", 28) \o "x"}
RawMetadata ==
  {{}, {"channel", "chat_text"}} \cup {{key} : key \in ForbiddenKeys}

PlainEvent ==
  MetadataEvent(0, "text", 10, "check_in", "met for coffee", {"channel"})

RawEvents ==
  {PlainEvent,
   MetadataEvent(0, "email", 10, "check_in", "met for coffee", {"channel"})}
  \cup {MetadataEvent(0, "call", sentiment, "check_in", "met for coffee",
                      {"channel"}) : sentiment \in RawSentiments}
  \cup {MetadataEvent(0, "text", 10, "check_in", summary, {"channel"}) :
          summary \in RawSummaries}
  \cup {MetadataEvent(0, "text", 10, "check_in", "met for coffee", metadata) :
          metadata \in RawMetadata}

\* Lists in which at most one event differs from the plain one.
RawEventLists ==
  UNION {{events \in [1..n -> RawEvents] :
            Cardinality({i \in 1..n : events[i] # PlainEvent}) <= 1} :
         n \in 0..MaxEvents}

RawRequests ==
  {[ScoreRequest(events, 50000, 1, LambdaDefault, TRUE, 100)
      EXCEPT !.op = op] : events \in RawEventLists, op \in {"ingest", "score"}}

\* The handlers behind the validation of their requests, on the store of
\* the default settings.
NextValidate ==
  \/ Receive(RawRequests)
  \/ IngestEvent(MaxEmbedRows)
  \/ AddStep(1)
  \/ Score

SpecValidate == Init /\ [][NextValidate]_vars

\* ------------------------------------------------------------------- claims
\* v is e divided by its norm (e itself when the norm is zero), said without
\* _normalize: of e's dimension, of length 1, parallel to e and pointing
\* the same way.
IsUnitOf(v, e) ==
  /\ v.dim = e.dim
  /\ IF Dot(e, e) = 0 THEN v.xs = e.xs
     ELSE /\ Dot(v, v) = Scale * Scale
          /\ v.xs[1] * e.xs[2] = v.xs[2] * e.xs[1]
          /\ Dot(v, e) > 0

\* The vectors a restart loads.
LoadedVecs == IF faiss /\ f_index.exists THEN f_index.vecs ELSE LoadedMatrix

\* The id-map ids and the vectors pair up: as many of each, and position i
\* holds the normalised embedding of the call that inserted row ids[i].
Paired(ids, vecs) ==
  /\ Len(vecs) = Len(ids)
  /\ \A i \in DOMAIN ids :
       /\ ids[i] \in returned
       /\ IsUnitOf(vecs[i], db[ids[i]].embedding)

\* C1: after any sequence of add_record calls made one at a time, and after
\* a restart between calls, the store holds as many vectors as the id-map
\* holds ids, and position i holds the (normalised) embedding given to the
\* call that returned id_map[i]; the persisted files hold the same.
C1_PairedAfterAdds ==
  AllIdle => Paired(id_map, StoredVecs) /\ Paired(LoadedIdMap, LoadedVecs)

\* C1's case: a restarted store of two records, one of them given an
\* embedding that was not of length 1.
C1_Witness ==
  /\ AllIdle
  /\ last.op = "none"
  /\ Len(id_map) >= 2
  /\ \E i \in DOMAIN id_map : db[id_map[i]].embedding = E68

\* C2: once every concurrent add_record call has returned, the vector count
\* is the id-map's length, no returned record's vector is lost, and every
\* position holds the vector of the record whose id the id-map holds there.
C2_ConcurrentAddsPaired ==
  AllIdle =>
    /\ Len(StoredVecs) = Len(id_map)
    /\ \A r \in returned :
         \E i \in DOMAIN id_map : id_map[i] = r /\ i <= Len(StoredVecs)
    /\ \A i \in DOMAIN id_map :
         i <= Len(StoredVecs) =>
           IsUnitOf(StoredVecs[i], db[id_map[i]].embedding)

\* The inner product, in 10^-4, of the normalised query q with the vector
\* stored at position i.
ScoreAt(q, i) == Round4(Dot(RankedVecs[i], Normalize(q)))

\* C3: a query for one contact returns no record of another contact.
C3_QueryScoped ==
  last.op = "query" =>
    \A i \in DOMAIN last.results :
      /\ last.results[i].contact_hash = last.contact_hash
      /\ db[last.results[i].id].contact_hash = last.contact_hash

\* C3's case: the query returned a record although a record of another
\* contact is more similar to the query than every record it returned.
C3_Witness ==
  /\ last.op = "query"
  /\ last.results # <<>>
  /\ AllIdle
  /\ \E j \in DOMAIN id_map :
       /\ db[id_map[j]].contact_hash # last.contact_hash
       /\ \A i \in DOMAIN last.results :
            ScoreAt(last.embedding, j) > last.results[i].score

C5_IdMapNotAhead ==
  /\ Len(LoadedIdMap) <= Len(LoadedVecs)
  /\ (AllIdle => Len(id_map) = Len(StoredVecs))

\* C6: once add_record has returned an id, the persisted files hold that id
\* in the id-map and its vector at the same position of the snapshot.
C6_ReturnedIsDurable ==
  \A r \in returned :
    \E i \in DOMAIN LoadedIdMap :
      /\ LoadedIdMap[i] = r
      /\ i <= Len(LoadedVecs)
      /\ IsUnitOf(LoadedVecs[i], db[r].embedding)

\* C7: add_record for contact c with a non-zero embedding e, followed at
\* once by query(c, e, k), returns the new record with similarity 1.0.
\* The claim is stated in the form that favours it: k results of similarity
\* 1.0 (earlier records of c as similar as the new one) also count.
C7_RoundTrip ==
  (/\ last.op = "query"
   /\ last.after_add # 0
   /\ db[last.after_add].contact_hash = last.contact_hash
   /\ db[last.after_add].embedding = last.embedding
   /\ Dot(last.embedding, last.embedding) # 0)
  => /\ last.status = "ok"
     /\ \/ \E i \in DOMAIN last.results :
             /\ last.results[i].id = last.after_add
             /\ last.results[i].score = 10000
        \/ /\ Len(last.results) = last.k
           /\ \A i \in DOMAIN last.results : last.results[i].score = 10000

\* The stored records of contact c: their positions in the id-map.
OwnPositions(c) ==
  {i \in DOMAIN id_map : db[id_map[i]].contact_hash = c}

\* C8: a contact with at least k stored records gets exactly k results, and
\* no record of the contact that was left out is more similar to the query
\* than one that was returned.
C8_TopKOfContact ==
  (last.op = "query" /\ AllIdle /\ last.status = "ok") =>
    LET own == OwnPositions(last.contact_hash)
        got == {last.results[i].id : i \in DOMAIN last.results}
    IN  /\ Cardinality(own) >= last.k => Len(last.results) = last.k
        /\ \A j \in own :
             id_map[j] \notin got =>
               \A i \in DOMAIN last.results :
                 ScoreAt(last.embedding, j) <= last.results[i].score

\* The cosine of q and e in 10^-4, from the raw vectors: s is it when
\* s * |q| * |e| = 10^4 * (q . e), and 0 when either norm is zero.
IsCosine(s, q, e) ==
  IF Dot(q, q) = 0 \/ Dot(e, e) = 0 THEN s = 0
  ELSE s * Norm(q) * Norm(e) = 10000 * Dot(q, e)

\* C9: a query given k >= 1 returns at most k results, in non-increasing
\* order of score, and each score is the inner product of the normalised
\* query with the normalised embedding of the record.
C9_OrderedAtMostK ==
  (last.op = "query" /\ last.status = "ok") =>
    /\ Len(last.results) <= last.k
    /\ \A i, j \in DOMAIN last.results :
         i < j => last.results[i].score >= last.results[j].score
    /\ \A i \in DOMAIN last.results :
         IsCosine(last.results[i].score, last.embedding,
                  db[last.results[i].id].embedding)

\* C9's case: a query cut to k results of different scores, the contact
\* holding more than k records.
C9_Witness ==
  /\ last.op = "query"
  /\ last.status = "ok"
  /\ Len(last.results) = 2
  /\ last.k = 2
  /\ last.results[1].score > last.results[2].score
  /\ Cardinality(OwnPositions(last.contact_hash)) > 2

\* C10: add_record with an embedding of another dimension than 384 raises,
\* and appends nothing to the vectors and nothing to the id-map.
C10_OtherDimensionRefused ==
  /\ (last.op = "add" /\ last.embedding.dim # EmbeddingDim)
       => last.status = "error"
  /\ \A i \in DOMAIN StoredVecs : StoredVecs[i].dim = EmbeddingDim
  /\ \A i \in DOMAIN id_map : db[id_map[i]].embedding.dim = EmbeddingDim

\* The store as its constructor leaves it: nothing has been asked of it.
JustLoaded == AllIdle /\ last.op = "none"

\* Neither the index file nor the matrix file is in the data directory.
NoVectorFile == ~f_index.exists /\ ~f_matrix.exists

\* C11: constructed with neither vector file, the store holds no vector and
\* an empty id-map, whatever id-map file there is; a query of it returns
\* the empty list without error; and the first add_record after it puts
\* its vector at the first position with its own id first in the id-map.
\* (No add_record has written its vectors while neither file exists, so an
\* add_record past the id-map append is the first since construction.)
C11_EmptyWithoutVectorFile ==
  NoVectorFile =>
    /\ JustLoaded => id_map = <<>> /\ StoredVecs = <<>>
    /\ (AllIdle /\ last.op = "query") =>
         last.status = "ok" /\ last.results = <<>>
    /\ \A t \in Threads :
         pc[t] \in {"persist", "snapshot"} =>
           /\ id_map = <<loc[t].row_id>>
           /\ StoredVecs = <<loc[t].vec>>

\* C12: a store whose id-map and vectors differ in number refuses to work:
\* add_record and query on it end in an error, and no result of a query
\* carries a score that is not the cosine of the query and the embedding
\* of the result's own record.
C12_MismatchIsFatal ==
  /\ (AllIdle /\ last.op \in {"add", "query"}
        /\ Len(id_map) # Len(StoredVecs)) => last.status # "ok"
  /\ (last.op = "query" /\ last.status = "ok") =>
       \A i \in DOMAIN last.results :
         IsCosine(last.results[i].score, last.embedding,
                  db[last.results[i].id].embedding)

\* The query vector has the dimension of the vectors it is compared with.
SameDimension ==
  RankedVecs # <<>> => RankedVecs[1].dim = last.embedding.dim

\* C13 as stated: a query of a store without vectors, and a query for a
\* contact with no stored record, return the empty list without error.
C13_EmptyIsNoError ==
  (AllIdle /\ last.op = "query"
     /\ (StoredVecs = <<>> \/ OwnPositions(last.contact_hash) = {}))
  => last.status = "ok" /\ last.results = <<>>

\* C13, amended: the same, for a query vector of the stored dimension; a
\* query vector of another dimension makes the query raise.
C13_EmptyIsNoErrorSameDimension ==
  /\ (AllIdle /\ last.op = "query" /\ SameDimension
        /\ (StoredVecs = <<>> \/ OwnPositions(last.contact_hash) = {}))
     => last.status = "ok" /\ last.results = <<>>
  /\ (AllIdle /\ last.op = "query" /\ ~SameDimension)
     => last.status = "ValueError"

\* C13's case: vectors are stored, none of them the asking contact's.
C13_Witness ==
  /\ AllIdle
  /\ last.op = "query"
  /\ last.status = "ok"
  /\ last.results = <<>>
  /\ StoredVecs # <<>>
  /\ id_map # <<>>
  /\ OwnPositions(last.contact_hash) = {}

\* C14: a query run while an add_record is in progress does not fail, and
\* every result it returns is of a record whose vector and id-map entry
\* are both in place.  (Stated for query vectors of the stored dimension.)
C14_QueryBesideAdd ==
  (last.op = "query" /\ ~AllIdle /\ SameDimension) =>
    /\ last.status = "ok"
    /\ \A i \in DOMAIN last.results :
         \E j \in DOMAIN id_map :
           /\ id_map[j] = last.results[i].id
           /\ j <= Len(RankedVecs)

\* The run has entered node n; every entry of a before every entry of b.
Ran(n) == \E i \in DOMAIN visited : visited[i] = n
Before(a, b) ==
  \A i, j \in DOMAIN visited : (visited[i] = a /\ visited[j] = b) => i < j
Entries(n) == Cardinality({i \in DOMAIN visited : visited[i] = n})

\* C15: the memory is queried exactly in the runs whose analysis set
\* anomaly_detected, after the analysis and before the planning; and the
\* planning comes before the scheduling.
C15_MemoryOnlyOnAnomaly ==
  /\ Ran("query_rag") =>
       /\ analysis.set /\ analysis.anomaly_detected
       /\ Before("analyze_anomaly", "query_rag")
  /\ (Ran("plan_action") /\ analysis.anomaly_detected) =>
       Ran("query_rag") /\ Before("query_rag", "plan_action")
  /\ Ran("plan_action") =>
       Ran("analyze_anomaly") /\ Before("analyze_anomaly", "plan_action")
  /\ Ran("schedule_action") =>
       Ran("plan_action") /\ Before("plan_action", "schedule_action")

\* C15's case: a finished run that went through the memory.
C15_Witness ==
  /\ node = "END"
  /\ visited = <<"analyze_anomaly", "query_rag", "plan_action",
                 "schedule_action">>
  /\ state.rag_context.kind = "snippets"

\* C16: a run never stops before it has entered schedule_action, enters no
\* node twice and calls the planner at most once; a finished run has
\* entered analyze_anomaly, plan_action and schedule_action once each.
C16_RunReachesSchedule ==
  /\ node = "raised" => Ran("schedule_action")
  /\ calls <= 1
  /\ \A n \in {"analyze_anomaly", "query_rag", "plan_action",
               "schedule_action"} : Entries(n) <= 1
  /\ node = "END" =>
       /\ calls = 1
       /\ \A n \in {"analyze_anomaly", "plan_action", "schedule_action"} :
            Entries(n) = 1

\* C17: the analysis sets anomaly_detected exactly when the score dropped
\* by 15 points or more or a recent event has a sentiment of -0.35 or
\* less; the reason names which of the two held; and anomaly_detected is
\* set exactly when the reason is not "none".
C17_AnomalyRule ==
  analysis.set =>
    LET drop == state.previous_score - state.current_score >= DropThreshold
        negative == \E i \in DOMAIN state.recent_metadata :
                      state.recent_metadata[i].sentiment <= NegativeSentiment
    IN  /\ analysis.anomaly_detected <=> (drop \/ negative)
        /\ analysis.anomaly_reason = "drop_and_negative_sentiment"
             <=> (drop /\ negative)
        /\ analysis.anomaly_reason = "score_drop" <=> (drop /\ ~negative)
        /\ analysis.anomaly_reason = "negative_sentiment"
             <=> (~drop /\ negative)
        /\ analysis.anomaly_reason = "none" <=> (~drop /\ ~negative)
        /\ analysis.anomaly_detected <=> analysis.anomaly_reason # "none"

\* C17's case: a drop of exactly the threshold and no negative event.
C17_Witness ==
  /\ analysis.set
  /\ state.previous_score - state.current_score = DropThreshold
  /\ \A i \in DOMAIN state.recent_metadata :
       state.recent_metadata[i].sentiment > NegativeSentiment
  /\ analysis.anomaly_detected
  /\ analysis.anomaly_reason = "score_drop"

\* The plan of the rules for a run of the given anomaly flag and score.
IsRulePlan(plan, anomaly, score) ==
  LET is(key, text) == plan[key] = PyStr(<<text>>)
      hours(n) == plan["schedule_in_hours"] = PyInt(n)
  IN  /\ \A key \in {"recommended_action", "draft_message"} :
           plan[key].t = "str" /\ Strip(plan[key].s) # <<>>
      /\ IF anomaly \/ score < CriticalBelow
         THEN is("priority", "high")
                /\ is("action_type", "draft_and_schedule") /\ hours(HoursHigh)
         ELSE IF score < GoodFrom
         THEN is("priority", "medium")
                /\ is("action_type", "draft") /\ hours(HoursMedium)
         ELSE is("priority", "low")
                /\ is("action_type", "deprioritize") /\ hours(HoursLow)

\* C18: recommend returns a plan whatever its provider does, and when there
\* is no provider, or the call raises, or its output does not parse, the
\* plan is the plan of the rules.
C18_FallbackOnFailure ==
  calls = 1 =>
    /\ \A key \in PlanKeys : state.plan[key] # Absent
    /\ (provider = "none" \/ reply.kind \in FailingKinds) =>
         IsRulePlan(state.plan, state.anomaly_detected, state.current_score)

\* C18's case: the provider raised in a run of the middle tier.
C18_Witness ==
  /\ calls = 1
  /\ provider = "openai"
  /\ reply.kind = "raises"
  /\ ~state.anomaly_detected
  /\ state.current_score = CriticalBelow
  /\ state.plan["priority"] = PyStr(<<"medium">>)

\* The value is left out, or is null, a number with a fraction, or a text
\* that spells no integer.
NotAnInteger(v) ==
  \/ v.t \in {"absent", "None"}
  \/ v.t = "float" /\ v.n % v.d # 0
  \/ v.t = "str" /\ \A n \in 0..MaxNumeral : Strip(v.s) # <<ToString(n)>>

\* C19: in the sanitised plan each of the four text keys that the reply
\* leaves out, or holds as null or as a blank text, has the value of the
\* fallback plan, and schedule_in_hours has the hours of the fallback plan
\* when the reply leaves it out or holds anything but an integer.
C19_MergeOverFallback ==
  (calls = 1 /\ provider # "none" /\ reply.kind = "dict") =>
    LET fallback == FallbackPlan(state)
        given == reply.dict
    IN  /\ \A key \in TextKeys :
             (\/ given[key] \in {Absent, PyNone}
              \/ given[key].t = "str" /\ Strip(given[key].s) = <<>>)
             => state.plan[key] = fallback[key]
        /\ NotAnInteger(given["schedule_in_hours"])
             => state.plan["schedule_in_hours"] = fallback["schedule_in_hours"]

\* C20: the plan recommend returns holds non-empty texts under
\* recommended_action and draft_message, one of the four action types, one
\* of the three priorities and an integer under schedule_in_hours.
C20_SchemaValid ==
  calls = 1 =>
    /\ \A key \in {"recommended_action", "draft_message"} :
         state.plan[key].t = "str" /\ state.plan[key].s # <<>>
    /\ state.plan["action_type"] \in
         {PyStr(<<t>>) : t \in {"draft", "draft_and_schedule", "deprioritize",
                                "reminder"}}
    /\ state.plan["priority"] \in
         {PyStr(<<t>>) : t \in {"low", "medium", "high"}}
    /\ state.plan["schedule_in_hours"].t = "int"

\* C21: the request to the preferred provider fails at most once in a
\* process: after the failure the client is gone and no later embed_texts
\* call invokes it; and the failing call returns a vector, the local
\* model's when there is one and the hash embedding otherwise.
C21_ProviderDisabledAfterFailure ==
  /\ embedded.failures <= 1
  /\ embedded.failures = 1 => ~embedder.openai
  /\ (embedded.failures = 1 /\ embedded.invoked) => embedded.failed
  /\ embedded.failed =>
       /\ embedded.source = IF embedded.loaded THEN "local" ELSE "hash"
       /\ embedded.vec = IF embedded.loaded THEN LocalEmbedding(embedded.text)
                         ELSE HashEmbedding(embedded.text)

\* C21's case: a call after the failure, answered by the hash embedding
\* without a request to the provider.
C21_Witness ==
  /\ embedded.failures = 1
  /\ ~embedded.invoked
  /\ embedded.source = "hash"
  /\ \E i \in DOMAIN db : db[i].embedding.dim = OtherDim

\* C22: an add_record with a vector of embed_texts is never rejected,
\* whatever the provider did before.
C22_EmbeddingNeverRejected ==
  last.op = "add" => last.status = "ok"

\* An event the contract calls malformed.
Malformed(ev) ==
  \/ ev.sentiment < -100 \/ ev.sentiment > 100
  \/ Len(ev.summary) < 8 \/ Len(ev.summary) > 280
  \/ \E key \in {"raw_message", "message_text", "full_text", "chat_text"} :
       key \in ev.metadata

CarriesRawText(metadata) ==
  \E key \in {"raw_message", "message_text", "full_text", "chat_text"} :
    key \in metadata

\* C23: a request with a malformed event (sentiment outside [-1, 1], summary
\* shorter than 8 or longer than 280 characters, or a forbidden raw-text key
\* in its metadata) is rejected when it is constructed, so that no record
\* stored through ingest and no event passed to scoring carries a forbidden
\* key in its metadata.
C23_MalformedRejected ==
  /\ (\E i \in DOMAIN request.events : Malformed(request.events[i]))
       => request.status = "rejected"
  /\ \A r \in DOMAIN db : ~CarriesRawText(db[r].metadata)
  /\ scored.op = "score" =>
       \A i \in DOMAIN scored.request.events :
         ~Malformed(scored.request.events[i])

\* A request with a forbidden key is rejected on a store that holds the
\* record of an earlier, well-formed event.
C23_Witness ==
  /\ request.op = "ingest" /\ request.status = "rejected"
  /\ \E i \in DOMAIN request.events :
       /\ CarriesRawText(request.events[i].metadata)
       /\ Len(request.events[i].summary) = 14
       /\ request.events[i].sentiment = 10
  /\ \E r \in DOMAIN db : "channel" \in db[r].metadata

\* A score in thousandths of a point lies in [0, 100].
InRange(score) == 0 <= score /\ score <= 100000

\* C24: for every list of events, the empty one included, and every previous
\* score in [0, 100], compute_relationship_score returns a value in [0, 100],
\* and so is every score of its fold.
C24_ScoreBounded ==
  scored.op = "score" =>
    /\ 0 <= scored.score /\ scored.score <= 10000
    /\ \A i \in DOMAIN scored.steps : InRange(scored.steps[i])

\* The largest impact on a full score and the smallest on an empty one: both
\* are cut back to the range.
C24_Witness ==
  /\ scored.op = "score"
  /\ \E i \in DOMAIN scored.steps :
       /\ scored.steps[i] = 100000
       /\ scored.request.events[i].interaction_type = "call"
       /\ scored.request.previous_score = 100000
       /\ Len(scored.request.events) = 1
  /\ scored.score < 10000

\* C25 as stated: for every event list and every base rate a caller can pass
\* (0.01 to 0.4), train_temporal_decay returns a rate in [0.03, 0.2], and with
\* fewer than two events it returns the base rate unchanged.
C25_TrainedInRange ==
  scored.op = "score" =>
    /\ 300 <= scored.trained /\ scored.trained <= 2000
    /\ Len(scored.request.events) < 2 =>
         scored.trained = scored.request.base_lambda

\* C25, amended: with two events or more the rate returned lies in
\* [0.03, 0.2]; with fewer it is the base rate unchanged, inside that range
\* or not.
C25_TrainedInRangeFromTwo ==
  scored.op = "score" =>
    /\ Len(scored.request.events) >= 2 =>
         300 <= scored.trained /\ scored.trained <= 2000
    /\ Len(scored.request.events) < 2 =>
         scored.trained = scored.request.base_lambda

\* Two events a day apart with the largest base rate: the trained rate is
\* cut back to 0.2.
C25_Witness ==
  /\ scored.op = "score"
  /\ Len(scored.request.events) = 2
  /\ scored.request.events[1].ts = scored.request.events[2].ts + 1
  /\ scored.request.base_lambda = 4000
  /\ scored.trained = 2000

\* C26: the risk level is high exactly when an anomaly was detected or the
\* score is below 45, medium exactly when there is no anomaly and the score
\* is at least 45 and below 70, low otherwise; the band is good from 75,
\* fading from 45 to below 75, critical below 45; a critical band goes with
\* a high risk.
C26_BandsAndRisk ==
  scored.op = "score" =>
    /\ \A a \in BOOLEAN :
         /\ scored.risk[a] = "high" <=> (a \/ scored.score < 4500)
         /\ scored.risk[a] = "medium" <=>
              (~a /\ 4500 <= scored.score /\ scored.score < 7000)
         /\ scored.risk[a] = "low" <=> (~a /\ scored.score >= 7000)
         /\ scored.band = "critical" => scored.risk[a] = "high"
    /\ scored.band = "good" <=> scored.score >= 7500
    /\ scored.band = "fading" <=> (4500 <= scored.score /\ scored.score < 7500)
    /\ scored.band = "critical" <=> scored.score < 4500

\* A score of exactly 75: good, and of low risk unless an anomaly was found.
C26_Witness ==
  /\ scored.op = "score"
  /\ scored.score = 7500
  /\ scored.band = "good"
  /\ scored.risk[FALSE] = "low" /\ scored.risk[TRUE] = "high"

\* Every event of the request is a call or a text of positive sentiment.
AllPositive(r) ==
  /\ r.events # <<>>
  /\ \A i \in DOMAIN r.events :
       /\ r.events[i].interaction_type \in {"call", "text"}
       /\ r.events[i].sentiment > 0

\* Every event lies at most one day before the present.
Recent(r) ==
  \A i \in DOMAIN r.events : r.as_of - r.events[i].ts <= 1

\* The scenario: a call of sentiment 0.9 at t0, a text of sentiment 0.7 at
\* t1 >= t0, the previous score 50, the present one day after t1.
Scenario(r) ==
  /\ Len(r.events) = 2
  /\ r.events[1].interaction_type = "call" /\ r.events[1].sentiment = 90
  /\ r.events[2].interaction_type = "text" /\ r.events[2].sentiment = 70
  /\ r.events[1].ts <= r.events[2].ts
  /\ r.previous_score = 50000
  /\ r.as_of = r.events[2].ts + 1

\* The parameters compute_relationship_score takes by default.
DefaultParameters(r) ==
  r.base_lambda = 800 /\ ~r.train /\ r.interaction_multiplier = 100

\* C27 as stated: when every event is a call or a text of positive sentiment
\* and the events are recent, the score is at least the previous score,
\* whatever the previous score; in the scenario the score is above 50 and at
\* most 100.
C27_PositiveNeverLowers ==
  scored.op = "score" =>
    /\ (AllPositive(scored.request) /\ Recent(scored.request)
          /\ DefaultParameters(scored.request)) =>
         scored.score * 10 >= scored.request.previous_score
    /\ (Scenario(scored.request) /\ DefaultParameters(scored.request)) =>
         5000 < scored.score /\ scored.score <= 10000

\* No time passes in the request: its events carry one time, and the
\* present is not later.
NoTimePasses(r) ==
  \A i, j \in DOMAIN r.events :
    r.events[i].ts = r.events[j].ts /\ r.as_of <= r.events[i].ts

\* C27, amended: when every event is a call or a text of positive sentiment
\* and no time passes between the events and the present, the score is at
\* least the previous score, whatever the previous score; in the scenario,
\* with t1 at most MaxDay days after t0, the score is above 50 and at most
\* 100.
C27_PositiveRaisesWithoutDecay ==
  scored.op = "score" =>
    /\ (AllPositive(scored.request) /\ NoTimePasses(scored.request)) =>
         scored.score * 10 >= scored.request.previous_score
    /\ (Scenario(scored.request) /\ DefaultParameters(scored.request)) =>
         5000 < scored.score /\ scored.score <= 10000

\* Two positive events at the present leave a previous score of 70 higher.
C27_Witness ==
  /\ scored.op = "score"
  /\ AllPositive(scored.request) /\ NoTimePasses(scored.request)
  /\ Len(scored.request.events) = 2
  /\ scored.request.previous_score = 70000
  /\ scored.score > 7000

\* Every event of the request is an ignored message or a missed call of
\* strongly negative sentiment.
AllNegative(r) ==
  \A i \in DOMAIN r.events :
    /\ r.events[i].interaction_type \in {"ignored_message", "missed_call"}
    /\ r.events[i].sentiment <= -35

\* C28: when every event is an ignored message or a missed call of strongly
\* negative sentiment, the score is at most the previous score, whatever the
\* previous score, the intents and the present.
C28_NegativeNeverRaises ==
  (scored.op = "score" /\ AllNegative(scored.request)) =>
    scored.score * 10 <= scored.request.previous_score

\* A missed call with the intent of the largest weight, scored at a present
\* before the event: neither decay nor recency lowers anything, the impact
\* does.
C28_Witness ==
  /\ scored.op = "score" /\ AllNegative(scored.request)
  /\ Len(scored.request.events) = 1
  /\ scored.request.events[1].interaction_type = "missed_call"
  /\ scored.request.events[1].intent = "support"
  /\ scored.request.as_of < scored.request.events[1].ts
  /\ scored.request.previous_score = 100000
  /\ scored.score < 10000 /\ scored.score > 9000

GrownByAtMostOne(s, t) ==
  /\ Len(s) <= Len(t) /\ Len(t) <= Len(s) + 1
  /\ \A i \in DOMAIN s : t[i] = s[i]

\* C31: every step of add_record leaves each row, each vector position and
\* each id-map entry as it was and at most appends one at the end; the call
\* that returns has appended its row's id and its vector last, and its id is
\* above every id returned before; a query changes nothing in the store, in
\* memory or on disk.
C31_AppendOnly ==
  [][/\ (pc[1] # "idle" \/ pc'[1] # "idle") =>
          /\ GrownByAtMostOne(db, db')
          /\ GrownByAtMostOne(id_map, id_map')
          /\ GrownByAtMostOne(StoredVecs, StoredVecs')
          /\ (pc'[1] = "idle" /\ last'.op = "add" /\ last'.status = "ok") =>
               /\ \A r \in returned : r < last'.row_id
               /\ id_map'[Len(id_map')] = last'.row_id
               /\ last'.row_id = Len(db')
               /\ StoredVecs'[Len(StoredVecs')] = Normalize(last'.embedding)
     /\ (last'.op = "query" /\ last' # last) =>
          UNCHANGED <<faiss, db, id_map, index, matrix, f_ids, f_index,
                      f_matrix>>]_vars

\* A third record is added on the matrix backend, its vector unlike the
\* first one.
C31_Witness ==
  /\ last.op = "add" /\ last.status = "ok" /\ last.after_add = 0
  /\ ~faiss /\ Len(matrix) = 3 /\ Len(id_map) = 3
  /\ matrix[1] # matrix[3]

\* C32: from the analysis on no node changes anomaly_detected and
\* anomaly_reason, and no node changes contact_hash, current_score and
\* previous_score at all: whatever the planner replies, the final state holds
\* what the caller and analyze_anomaly set, and so the risk level drawn from
\* its anomaly_detected is the analysis's.
C32_PlannerCannotOverwrite ==
  [][/\ node \in {"query_rag", "plan_action", "schedule_action"} =>
          /\ state'.anomaly_detected = state.anomaly_detected
          /\ state'.anomaly_reason = state.anomaly_reason
     /\ node \in {"analyze_anomaly", "query_rag", "plan_action",
                  "schedule_action"} =>
          /\ state'.contact_hash = state.contact_hash
          /\ state'.current_score = state.current_score
          /\ state'.previous_score = state.previous_score
     /\ node' = "END" =>
          \A score \in {0, 5000, 10000} :
            RiskLevelForScore(score, state'.anomaly_detected)
              = RiskLevelForScore(score, analysis.anomaly_detected)]_vars

\* C33: between calls, also after a restart with the other backend and after
\* the add_record calls that follow it, query ranks as many vectors as the
\* id-map holds ids, and the vector at position i is the normalised embedding
\* of the record id_map[i].
C33_PairedAcrossBackends ==
  AllIdle => Paired(id_map, RankedVecs)

\* The ways of reordering n events: p[k] is the place in the caller's list of
\* the event put at place k.
Reorderings(n) ==
  {p \in [1..n -> 1..n] : \A i, j \in 1..n : p[i] = p[j] => i = j}

Reordered(events, p) == [k \in DOMAIN events |-> events[p[k]]]

\* Events of one timestamp keep the order they have in the caller's list.
TiesKept(events, p) ==
  \A a, b \in DOMAIN events :
    (a < b /\ events[p[a]].ts = events[p[b]].ts) => p[a] < p[b]

\* The score of the scored request with its events in another order.
ScoreOfEvents(events) ==
  ComputeRelationshipScore(events, scored.request.previous_score,
                           scored.request.as_of,
                           [lambda_decay |-> scored.lambda_used,
                            interaction_multiplier |->
                              scored.request.interaction_multiplier]).score

\* C34 as stated: every reordering of the events gives the same score, events
\* of one timestamp and scores clamped during the fold included.
C34_OrderIndependent ==
  scored.op = "score" =>
    \A p \in Reorderings(Len(scored.request.events)) :
      ScoreOfEvents(Reordered(scored.request.events, p)) = scored.score

\* C34, amended: every reordering of the events that keeps the caller's
\* order among the events of one timestamp gives the same score, also when
\* the score is clamped during the fold.
C34_OrderIndependentApartFromTies ==
  scored.op = "score" =>
    \A p \in Reorderings(Len(scored.request.events)) :
      TiesKept(scored.request.events, p) =>
        ScoreOfEvents(Reordered(scored.request.events, p)) = scored.score

\* The caller gives the later event first, and the fold clamps the score at
\* 100 after the earlier one.
C34_Witness ==
  /\ scored.op = "score"
  /\ Len(scored.request.events) = 2
  /\ scored.request.events[1].ts > scored.request.events[2].ts
  /\ scored.steps[1] = MaxScore * 1000
  /\ scored.steps[2] < MaxScore * 1000

\* The score of the scored request computed again `later` days after its
\* as_of, and the score of the request decayed over those days.
ScoreLater(later) ==
  ComputeRelationshipScore(scored.request.events,
                           scored.request.previous_score,
                           scored.request.as_of + later,
                           [lambda_decay |-> scored.lambda_used,
                            interaction_multiplier |->
                              scored.request.interaction_multiplier]).score

DecayedScore(later) ==
  RoundDiv(scored.score * ExpNeg(scored.lambda_used, later), 10000)

\* C36 as stated: the score computed `later` days after as_of is the score
\* at as_of decayed over those days, to a hundredth of a point, and is never
\* above the score at as_of.
C36_Composes ==
  scored.op = "score" =>
    \A later \in 0..MaxDay :
      /\ ScoreLater(later) - DecayedScore(later) \in -1..1
      /\ ScoreLater(later) <= scored.score

\* No event of the request is later than its as_of.
EventsPast(r) == \A i \in DOMAIN r.events : r.events[i].ts <= r.as_of

\* C36, amended: when every event is a call or a text of positive sentiment
\* the score computed later is never above the score at as_of, and when the
\* request has events, none later than as_of, it is at most the score at
\* as_of decayed over the days between, to a hundredth of a point.
C36_LaterScoreBelowDecayed ==
  (scored.op = "score" /\ AllPositive(scored.request)) =>
    \A later \in 0..MaxDay :
      /\ ScoreLater(later) <= scored.score
      /\ (scored.request.events # <<>> /\ EventsPast(scored.request)) =>
           ScoreLater(later) <= DecayedScore(later) + 1

\* A request of one positive event a day old with the default parameters: a
\* day later the score is below the decayed one.
C36_Witness ==
  /\ scored.op = "score" /\ AllPositive(scored.request)
  /\ DefaultParameters(scored.request)
  /\ Len(scored.request.events) = 1
  /\ scored.request.events[1].ts < scored.request.as_of
  /\ scored.request.previous_score = 50000
  /\ ScoreLater(1) < DecayedScore(1)

\* What query_rag left in rag_context, when it returned.
ContextLeft ==
  IF Summaries(state) = <<>>
  THEN state.rag_context.kind = "no_history" /\ embedded.source = "none"
  ELSE /\ state.rag_context.kind \in {"no_similar", "snippets"}
       /\ state.rag_context.kind = "snippets" <=> state.rag_context.ids # <<>>
       /\ Len(state.rag_context.ids) <= QueryK
       /\ \A i \in DOMAIN state.rag_context.ids :
            /\ state.rag_context.ids[i] \in 1..Len(db)
            /\ db[state.rag_context.ids[i]].contact_hash = state.contact_hash
       /\ embedded.source # "none"
       /\ embedded.text = JoinedSummaries(state)
       /\ Len(embedded.text) <= LastSummaries

\* C35: once query_rag has run rag_context is set: to the no-history message
\* when no recent event has a summary (and nothing was embedded), else to
\* the no-similar message or to the summaries of at most 4 records of the
\* state's contact, found with the last 3 summaries at most; a run that
\* skips query_rag plans with the empty default of rag_context.
C35_ContextAlwaysSet ==
  /\ Ran("query_rag") => state.rag_context.kind # "unset" /\ ContextLeft
  /\ (Ran("plan_action") /\ ~Ran("query_rag")) =>
       state.rag_context.kind = "unset"

\* The same of the runs in which query_rag returned: it holds of them.
C35_ContextSetOnReturn ==
  /\ (Ran("query_rag") /\ node # "raised") =>
       state.rag_context.kind # "unset" /\ ContextLeft
  /\ (Ran("plan_action") /\ ~Ran("query_rag")) =>
       state.rag_context.kind = "unset"
====
